---- MODULE Spec2Model ----
(***************************************************************************)
(* ACL-MCP skeleton cache, durable store and import graph.                 *)
(*                                                                         *)
(* State machine of SkeletonCache / LRUCache (cartographer/cache.ts),      *)
(* Cartographer (cartographer/index.ts), the tables and the file of        *)
(* AclDatabase (anchor/database.ts), and the handlers of Shadow, Anchor    *)
(* and AclServer (index.ts) that reach them.                               *)
(*                                                                         *)
(* An action is one synchronous block of the Node.js event loop: a call    *)
(* up to its first await, the continuation after an await (a microtask),   *)
(* a timer callback.  The workspace files are changed by other processes   *)
(* between such blocks.                                                    *)
(*                                                                         *)
(* Specifications: Spec (the Cartographer over two files, one of them      *)
(* rewritten), SpecWatch / SpecWatchFair (change events of the rewritten   *)
(* file under the event loop's fairness), SpecInFlight (racing calls),     *)
(* SpecCache and SpecDebounce / SpecDebounceFair (SkeletonCache used       *)
(* directly), SpecGraph (getRelatedFiles over arbitrary edge sets),        *)
(* SpecLRU (LRUCache alone), SpecUpsert / SpecStore / SpecTxn (AclDatabase *)
(* with failing writes of its file), SpecAbsent (unparsable files),        *)
(* SpecShadow / SpecShadowFair (watcher events through Shadow),            *)
(* SpecSession (sessions of the Anchor across a restart), SpecMap          *)
(* (mapDirectory), SpecEdges (imports of files, packages and directories), *)
(* SpecSet (set and getIfValid of files that vanish).                      *)
(***************************************************************************)
EXTENDS Integers, Sequences, FiniteSets, TLC

\* ------------------------------------------------------------------ bounds
\* Last value of the clock (Date.now()), in ticks.
MaxTime == 3
\* The debounceMs a direct user of SkeletonCache constructs it with, in ticks.
DebounceMs == 2
\* config.cache.debounceMs, which the Cartographer constructs its cache with,
\* in ticks.
ConfigDebounceMs == 1
\* Last value of the clock while the Cartographer runs.
MaxWait == 1
\* config.cache.maxSkeletons scaled to the number of requested paths.
MaxSkeletons == 1
\* Most getSkeleton continuations waiting in the microtask queue.
MaxPending == 1
\* Most getSkeleton calls suspended at a time where calls race.
MaxInFlight == 2
\* Most timers alive in the runtime at once.
MaxTimers == 3
\* Largest depth handed to getRelatedFiles.
MaxDepth == 2

\* null / undefined, and a present value.
Null == << >>
Some(x) == << x >>

\* ------------------------------------------------------------- the workspace
Files == {"a.ts", "b.ts", "c.ts", "notes.md"}

\* The directories below the workspace root ".", and the files in them, by
\* workspace-relative path; the files of the root are Files.  The files in
\* them are read by mapDirectory only.
Directories == {"lib", "lib/deep", "node_modules"}
TreeFiles == {"lib/README.md", "lib/data.bin", "lib/deep/go.mod", "node_modules/package.json"}

\* String.prototype.startsWith
StartsWith(s, prefix) == Len(prefix) <= Len(s) /\ SubSeq(s, 1, Len(prefix)) = prefix

\* detectLanguage: the language of the path's extension, null when the
\* extension is not in EXTENSION_TO_LANGUAGE.
DetectLanguage(p) == IF p \in {"a.ts", "b.ts", "c.ts"} THEN Some("typescript") ELSE Null

\* The files parseFile can parse.
SourceFiles == { f \in Files : DetectLanguage(f) # Null }

\* The paths handed to the operations; c.ts only exists and is imported.
Paths == {"a.ts", "b.ts"}

\* The path another process rewrites while the Cartographer runs, for which
\* the watcher reports changes and refreshes are asked, and what is written.
Rewritten == {"a.ts"}
RewriteContents == {3, 4}

\* Contents a file can have; a content stands for the raw bytes of one file.
Contents == 1 .. 6

\* The file does not exist (statSync / readFileSync throw).
Missing == 0

\* Contents each file takes in the model.
FileContents(f) ==
    CASE f = "a.ts" -> {2, 3, 4, 5}
      [] f = "b.ts" -> {1, 4}
      [] OTHER      -> {1}

Imp(source, isTypeOnly, isDynamic) ==
    [source |-> source, isTypeOnly |-> isTypeOnly, isDynamic |-> isDynamic]

\* The import statements written in a content.  Contents 2 and 5 differ in
\* bytes that are not part of the skeleton (a function body); content 6
\* imports the directory lib, which holds no index file, and an absolute
\* path that does not exist.
ImportsOf(c) ==
    CASE c = 1 -> << >>
      [] c = 2 -> << Imp("./b", FALSE, FALSE) >>
      [] c = 3 -> << Imp("./b", FALSE, FALSE), Imp("./c", FALSE, TRUE) >>
      [] c = 4 -> << Imp("./c", FALSE, TRUE), Imp("./a", TRUE, TRUE),
                     Imp("react", FALSE, FALSE) >>
      [] c = 6 -> << Imp("./lib", FALSE, FALSE), Imp("/etc/hosts", FALSE, FALSE) >>
      [] OTHER -> << Imp("./b", FALSE, FALSE) >>

Max(a, b) == IF a >= b THEN a ELSE b

\* createHash('md5').update(content).digest('hex'): a function of the bytes
\* alone, injective on the contents of the model.
Md5(c) == 100 + (7 * c)

\* computeFileHash's null.
HashNull == 0
\* persistSkeleton's hash = '' when the file cannot be read.
HashEmpty == 1

\* ------------------------------------------------------------------ parser
\* parseFile(filePath, maxSizeBytes) on disk d: null when the language of the
\* file is not supported or the file cannot be read, else the skeleton of its
\* content.
ParseFile(d, p) ==
    IF DetectLanguage(p) = Null \/ d[p] = Missing
    THEN Null
    ELSE Some([filePath |-> p, language |-> DetectLanguage(p)[1],
               imports |-> ImportsOf(d[p]), parseErrors |-> << >>])

\* ---------------------------------------------------------------- LRUCache
\* The Map of LRUCache as the sequence of its entries in insertion order.
CacheEntry(k, v, h, t) == [key |-> k, value |-> v, hash |-> h, accessedAt |-> t]

CacheKeys(c) == { c[i].key : i \in 1 .. Len(c) }

CacheIndex(c, k) ==
    IF k \in CacheKeys(c) THEN CHOOSE i \in 1 .. Len(c) : c[i].key = k ELSE 0

RemoveAt(s, i) == SubSeq(s, 1, i - 1) \o SubSeq(s, i + 1, Len(s))

\* LRUCache.get: the entry, touched.
LRUGet(c, k, t) ==
    LET i == CacheIndex(c, k) IN
    IF i = 0
    THEN [entry |-> Null, cache |-> c]
    ELSE [entry |-> Some([c[i] EXCEPT !.accessedAt = t]),
          cache |-> [c EXCEPT ![i].accessedAt = t]]

\* A delete that empties the cache.
LRUDeleteAll(c, k) == << >>

\* LRUCache.delete
LRUDelete(c, k) ==
    LET i == CacheIndex(c, k) IN IF i = 0 THEN c ELSE RemoveAt(c, i)

\* First position of the sort by accessedAt (Array.prototype.sort is stable:
\* among equal times the entry inserted first comes first).
OldestIndex(c) ==
    CHOOSE i \in 1 .. Len(c) :
        \A j \in 1 .. Len(c) :
            \/ c[i].accessedAt < c[j].accessedAt
            \/ c[i].accessedAt = c[j].accessedAt /\ i <= j

RECURSIVE RemoveOldest(_, _)
RemoveOldest(c, n) ==
    IF n = 0 \/ Len(c) = 0 THEN c
    ELSE RemoveOldest(RemoveAt(c, OldestIndex(c)), n - 1)

\* LRUCache.evictOldest
EvictOldest(c, maxSize) == RemoveOldest(c, Max(1, maxSize \div 10))

\* A set that never evicts.
LRUSetNoEvict(c, maxSize, k, v, h, t) ==
    LET i == CacheIndex(c, k)
    IN  IF i = 0
        THEN Append(c, CacheEntry(k, v, h, t))
        ELSE [c EXCEPT ![i] = CacheEntry(k, v, h, t)]

\* LRUCache.set
LRUSet(c, maxSize, k, v, h, t) ==
    LET c1 == IF Len(c) >= maxSize THEN EvictOldest(c, maxSize) ELSE c
        i  == CacheIndex(c1, k)
    IN  IF i = 0
        THEN Append(c1, CacheEntry(k, v, h, t))
        ELSE [c1 EXCEPT ![i] = CacheEntry(k, v, h, t)]

\* ----------------------------------------------------------- SkeletonCache
\* SkeletonCache.computeFileHash
ComputeFileHash(d, p) == IF d[p] = Missing THEN HashNull ELSE Md5(d[p])

\* getIfValid trusting the entry without recomputing the fingerprint.
GetIfValidUnchecked(c, d, p, t) ==
    LET g == LRUGet(c, p, t) IN
    IF g.entry = Null
    THEN [value |-> Null, cache |-> g.cache]
    ELSE [value |-> Some(g.entry[1].value), cache |-> g.cache]

\* SkeletonCache.getIfValid: the value returned and the cache left behind.
GetIfValid(c, d, p, t) ==
    LET g == LRUGet(c, p, t) IN
    IF g.entry = Null
    THEN [value |-> Null, cache |-> g.cache]
    ELSE IF ComputeFileHash(d, p) = g.entry[1].hash
         THEN [value |-> Some(g.entry[1].value), cache |-> g.cache]
         ELSE [value |-> Null, cache |-> LRUDelete(g.cache, p)]

\* A set that stores the entry whether or not the fingerprint was computed.
CacheSetAlways(c, d, p, s, t) ==
    LRUSet(c, MaxSkeletons, p, s, ComputeFileHash(d, p), t)

\* A set that stores the entry without the file's fingerprint.
CacheSetUnhashed(c, d, p, s, t) ==
    LET hash == ComputeFileHash(d, p) IN
    IF hash # HashNull THEN LRUSet(c, MaxSkeletons, p, s, HashEmpty, t) ELSE c

\* SkeletonCache.set
CacheSet(c, d, p, s, t) ==
    LET hash == ComputeFileHash(d, p) IN
    IF hash # HashNull THEN LRUSet(c, MaxSkeletons, p, s, hash, t) ELSE c


\* SkeletonCache.invalidateDebounced: clearTimeout of the path's timer, then
\* setTimeout of a new one.  A timer of the runtime is a record of its id,
\* the path and callback its closure captured, and the tick it is due at.
Timer(id, p, cb, due) == [id |-> id, path |-> p, cb |-> cb, due |-> due]

ClearTimeout(sched, id) == { tm \in sched : tm.id # id }

FreshId(sched) ==
    CHOOSE i \in 1 .. (Cardinality(sched) + 1) :
        /\ \A tm \in sched : tm.id # i
        /\ \A j \in 1 .. (i - 1) : \E tm \in sched : tm.id = j

\* invalidateDebounced that does not clear the timer it replaces.
InvalidateDebouncedNoClear(timers, sched, debounceMs, p, cb, t) ==
    LET id == FreshId(sched)
    IN  [timers    |-> [timers EXCEPT ![p] = id],
         scheduled |-> sched \cup {Timer(id, p, cb, t + debounceMs)}]

InvalidateDebounced(timers, sched, debounceMs, p, cb, t) ==
    LET existing == timers[p]
        sched1   == IF existing # 0 THEN ClearTimeout(sched, existing) ELSE sched
        id       == FreshId(sched1)
    IN  [timers    |-> [timers EXCEPT ![p] = id],
         scheduled |-> sched1 \cup {Timer(id, p, cb, t + debounceMs)}]

\* An invalidate that forgets the timer of the path without cancelling it.
InvalidateNoCancel(c, timers, sched, p) ==
    [cache     |-> LRUDelete(c, p),
     timers    |-> [timers EXCEPT ![p] = 0],
     scheduled |-> sched]

\* SkeletonCache.invalidate
Invalidate(c, timers, sched, p) ==
    [cache     |-> LRUDelete(c, p),
     timers    |-> [timers EXCEPT ![p] = 0],
     scheduled |-> IF timers[p] # 0 THEN ClearTimeout(sched, timers[p]) ELSE sched]

\* ------------------------------------------------------------- AclDatabase
\* Tables skeletons and import_graph as sets of rows (the columns id and
\* created_at are left out; no statement of the program reads them).
SkeletonRow(p, h, lang, json, t) ==
    [file_path |-> p, file_hash |-> h, language |-> lang,
     skeleton_json |-> json, updated_at |-> t]

\* JSON.stringify / JSON.parse of a skeleton.
JsonStringify(s) == << "json", s >>
JsonParse(j) == j[2]

\* db.export(): the image of the four tables that save() writes to the file.
Export(sk, ig, se, ar) ==
    [skeletons |-> sk, import_graph |-> ig, sessions |-> se, context_artifacts |-> ar]

\* AclDatabase.getSkeleton: queryOne of SELECT * FROM skeletons WHERE file_path = ?
DbGetSkeleton(tbl, p) ==
    IF \E r \in tbl : r.file_path = p
    THEN Some(CHOOSE r \in tbl : r.file_path = p)
    ELSE Null

\* An upsert that inserts a row whatever the table holds.
UpsertSkeletonInsert(tbl, p, h, lang, json, t) ==
    tbl \cup {SkeletonRow(p, h, lang, json, t)}

\* AclDatabase.upsertSkeleton: INSERT ... ON CONFLICT(file_path) DO UPDATE
UpsertSkeleton(tbl, p, h, lang, json, t) ==
    IF \E r \in tbl : r.file_path = p
    THEN { IF r.file_path = p
           THEN [r EXCEPT !.file_hash = h, !.language = lang,
                          !.skeleton_json = json, !.updated_at = t]
           ELSE r : r \in tbl }
    ELSE tbl \cup {SkeletonRow(p, h, lang, json, t)}

\* A delete that removes no row.
DeleteSkeletonNothing(tbl, p) == tbl

\* AclDatabase.deleteSkeleton
DeleteSkeleton(tbl, p) == { r \in tbl : r.file_path # p }

EdgeRow(s, t, type) == [source_path |-> s, target_path |-> t, import_type |-> type]

\* AclDatabase.addImportEdge: INSERT OR IGNORE under UNIQUE(source, target, type)
AddImportEdge(g, s, t, type) ==
    IF \E e \in g : e.source_path = s /\ e.target_path = t /\ e.import_type = type
    THEN g
    ELSE g \cup {EdgeRow(s, t, type)}

\* AclDatabase.getImports
GetImports(g, p) == { e \in g : e.source_path = p }

\* A query of the importers that selects on the source column.
GetImportersBySource(g, p) == { e \in g : e.source_path = p }

\* AclDatabase.getImporters
GetImporters(g, p) == { e \in g : e.target_path = p }

\* A clear that removes no row.
ClearImportsForFileNothing(g, p) == g

\* A clear that removes the edges of every source.
ClearImportsForFileAll(g, p) == {}

\* AclDatabase.clearImportsForFile
ClearImportsForFile(g, p) == { e \in g : e.source_path # p }

\* ------------------------------------------------------------ Cartographer
\* existsSync
ExistsSync(d, path) ==
    \/ path \in DOMAIN d /\ d[path] # Missing
    \/ path \in Directories \cup TreeFiles

\* imp.source.startsWith('.') || imp.source.startsWith('/')
IsLocalSource(source) == StartsWith(source, ".") \/ StartsWith(source, "/")

\* The paths resolveImportPath tries for a specifier written in a file of the
\* workspace directory, in its order: the exact path, then for each
\* extension the path with the extension and the index file.
ResolveCandidates(source) ==
    CASE source = "./a" -> << "a", "a.ts", "a/index.ts", "a.tsx", "a/index.tsx" >>
      [] source = "./b" -> << "b", "b.ts", "b/index.ts", "b.tsx", "b/index.tsx" >>
      [] source = "./c" -> << "c", "c.ts", "c/index.ts", "c.tsx", "c/index.tsx" >>
      [] source = "./lib" -> << "lib", "lib.ts", "lib/index.ts", "lib.tsx", "lib/index.tsx" >>
      [] source = "/etc/hosts" -> << "/etc/hosts", "/etc/hosts.ts", "/etc/hosts/index.ts" >>
      [] OTHER -> << >>

\* A resolution that takes the exact path without looking for the file.
ResolveImportPathExact(d, fromPath, source) ==
    LET cand == ResolveCandidates(source)
    IN  IF cand = << >> THEN Null ELSE Some(cand[1])

\* Cartographer.resolveImportPath
ResolveImportPath(d, fromPath, source) ==
    LET cand == ResolveCandidates(source)
        hits == { i \in 1 .. Len(cand) : ExistsSync(d, cand[i]) }
    IN  IF hits = {} THEN Null
        ELSE Some(cand[CHOOSE i \in hits : \A j \in hits : i <= j])

\* imp.isTypeOnly ? 'type-only' : imp.isDynamic ? 'dynamic' : 'static'
ImportType(imp) ==
    IF imp.isTypeOnly THEN "type-only" ELSE IF imp.isDynamic THEN "dynamic" ELSE "static"

\* The loop of persistSkeleton over skeleton.imports.
RECURSIVE AddEdges(_, _, _, _)
AddEdges(g, d, filePath, imports) ==
    IF imports = << >> THEN g
    ELSE LET imp    == Head(imports)
             target == IF IsLocalSource(imp.source)
                       THEN ResolveImportPath(d, filePath, imp.source)
                       ELSE Null
             g1     == IF target # Null
                       THEN AddImportEdge(g, filePath, target[1], ImportType(imp))
                       ELSE g
         IN  AddEdges(g1, d, filePath, Tail(imports))

\* persistSkeleton that adds the new edges to the old ones.
PersistSkeletonMerge(tbl, g, d, filePath, skeleton, t) ==
    LET hash == IF d[filePath] = Missing THEN HashEmpty ELSE Md5(d[filePath])
    IN  [skeletons    |-> UpsertSkeleton(tbl, filePath, hash, skeleton.language,
                                         JsonStringify(skeleton), t),
         import_graph |-> AddEdges(g, d, filePath, skeleton.imports)]

\* Cartographer.persistSkeleton
PersistSkeleton(tbl, g, d, filePath, skeleton, t) ==
    LET hash == IF d[filePath] = Missing THEN HashEmpty ELSE Md5(d[filePath])
    IN  [skeletons    |-> UpsertSkeleton(tbl, filePath, hash, skeleton.language,
                                         JsonStringify(skeleton), t),
         import_graph |-> AddEdges(ClearImportsForFile(g, filePath), d, filePath,
                                   skeleton.imports)]

\* A callback that deletes the record and leaves the edges.
OnFileChangedCallbackRecordOnly(tbl, g, p) ==
    [skeletons |-> DeleteSkeleton(tbl, p), import_graph |-> g]

\* The callback onFileChanged hands to invalidateDebounced.
OnFileChangedCallback(tbl, g, p) ==
    [skeletons |-> DeleteSkeleton(tbl, p), import_graph |-> ClearImportsForFile(g, p)]

\* A getSkeleton that goes from the memory cache to the parser and does not
\* look at the store.
GetSkeletonSyncSkipStore(c, tbl, d, p, t) ==
    LET r == GetIfValid(c, d, p, t) IN
    IF r.value # Null
    THEN [src |-> "memory", value |-> r.value, cache |-> r.cache]
    ELSE [src |-> "parse", value |-> ParseFile(d, p), cache |-> r.cache]

\* Cartographer.getSkeleton up to its await: the memory cache, then the
\* store, then parseFile whose result the continuation receives.
GetSkeletonSync(c, tbl, d, p, t) ==
    LET r == GetIfValid(c, d, p, t) IN
    IF r.value # Null
    THEN [src |-> "memory", value |-> r.value, cache |-> r.cache]
    ELSE LET dbRecord == DbGetSkeleton(tbl, p) IN
         IF dbRecord # Null
         THEN LET skeleton == JsonParse(dbRecord[1].skeleton_json) IN
              [src |-> "store", value |-> Some(skeleton),
               cache |-> CacheSet(r.cache, d, p, skeleton, t)]
         ELSE [src |-> "parse", value |-> ParseFile(d, p), cache |-> r.cache]

\* A set as a sequence, for loops over query results.
RECURSIVE SetToSeq(_)
SetToSeq(S) ==
    IF S = {} THEN << >>
    ELSE LET x == CHOOSE x \in S : TRUE IN << x >> \o SetToSeq(S \ {x})

SeqToSet(q) == { q[i] : i \in 1 .. Len(q) }

QueueItem(path, currentDepth) == [path |-> path, currentDepth |-> currentDepth]

\* A loop turn that follows the imports of a file and not its importers.
BfsStepImportsOnly(b, g, depth) ==
    LET item == Head(b.queue)
        rest == Tail(b.queue)
    IN  IF item.path \in SeqToSet(b.visited) \/ item.currentDepth > depth
        THEN [queue |-> rest, visited |-> b.visited]
        ELSE LET visited == Append(b.visited, item.path)
                 seen    == SeqToSet(visited)
                 imports == SelectSeq(SetToSeq(GetImports(g, item.path)),
                                      LAMBDA e : e.target_path \notin seen)
             IN  [queue |-> rest
                            \o [i \in 1 .. Len(imports) |->
                                  QueueItem(imports[i].target_path, item.currentDepth + 1)],
                  visited |-> visited]

\* One turn of the while loop of getRelatedFiles: b.queue is the queue,
\* b.visited the Set visited in insertion order.
BfsStep(b, g, depth) ==
    LET item == Head(b.queue)
        rest == Tail(b.queue)
    IN  IF item.path \in SeqToSet(b.visited) \/ item.currentDepth > depth
        THEN [queue |-> rest, visited |-> b.visited]
        ELSE LET visited == Append(b.visited, item.path)
                 seen    == SeqToSet(visited)
                 imports == SelectSeq(SetToSeq(GetImports(g, item.path)),
                                      LAMBDA e : e.target_path \notin seen)
                 importers == SelectSeq(SetToSeq(GetImporters(g, item.path)),
                                        LAMBDA e : e.source_path \notin seen)
             IN  [queue |-> rest
                            \o [i \in 1 .. Len(imports) |->
                                  QueueItem(imports[i].target_path, item.currentDepth + 1)]
                            \o [i \in 1 .. Len(importers) |->
                                  QueueItem(importers[i].source_path, item.currentDepth + 1)],
                  visited |-> visited]

RECURSIVE BfsRun(_, _, _)
BfsRun(b, g, depth) ==
    IF b.queue = << >> THEN b ELSE BfsRun(BfsStep(b, g, depth), g, depth)

\* visited.delete(absolutePath); Array.from(visited)
BfsResult(visited, p) == SelectSeq(visited, LAMBDA x : x # p)

\* Cartographer.getRelatedFiles
GetRelatedFiles(g, p, depth) ==
    BfsResult(BfsRun([queue |-> << QueueItem(p, 0) >>, visited |-> << >>], g, depth).visited, p)

\* --------------------------------------------------------------- the state
VARIABLES
    disk,            \* content of each workspace file, or Missing
    now,             \* Date.now()
    cache,           \* SkeletonCache.memoryCache
    debounceTimers,  \* SkeletonCache.debounceTimers: path -> timer id, 0 = no entry
    scheduled,       \* timers alive in the runtime (set, not yet fired or cleared)
    skeletons,       \* rows of table skeletons
    import_graph,    \* rows of table import_graph
    sessions,        \* rows of table sessions
    context_artifacts, \* rows of table context_artifacts
    dbFile,          \* the file at dbPath: what the last writeFileSync left
    call,            \* history: the last operation called on the AclDatabase
    lastContext,     \* Shadow.lastContext: its activeFile, or null
    anchor,          \* the tables of the AclDatabase the Anchor opens on the same file
    dbOpen,          \* AclDatabase.db of the server's database is not null
    initialized,     \* AclDatabase.initialized of the server's database
    server,          \* AclServer: its fields, the objects it has created and
                     \*            its tool-call handlers in progress
    pending,         \* getSkeleton calls suspended at await parseFile, oldest first
    last,            \* history: the block that ran last, what it saw and returned
    lastSet,         \* history: per cached path, the arguments of the set that stored it
    burst,           \* history: per path, the invalidateDebounced calls since the last effect
    clean,           \* history: per path, result of the last completed getSkeleton
                     \*          if nothing touched the path since
    related,         \* the getRelatedFiles call in progress: its queue and visited
    lru              \* an LRUCache used on its own: its maxSize, and history of
                     \* the order of touches and of the last eviction pass

vars == << disk, now, cache, debounceTimers, scheduled, skeletons, import_graph,
           sessions, context_artifacts, dbFile, call, lastContext, anchor, dbOpen,
           initialized, server, pending,
           last, lastSet, burst, clean, related, lru >>

dbVars == << skeletons, import_graph, sessions, context_artifacts, dbFile, call >>

\* The state of Shadow and Anchor, the other modules of the server, the
\* handle of the database and the server itself.
serverVars == << lastContext, anchor, dbOpen, initialized, server >>

\* AclServer after its constructor, for workspace "/w": nothing is
\* initialized, no object has been created and no handler runs.
NoServer ==
    [workspacePath |-> "/w", initialized |-> FALSE, config |-> Null, database |-> Null,
     anchor |-> Null, cartographer |-> Null, shadow |-> Null,
     stores |-> << >>, watchers |-> << >>, timers |-> {}, handlers |-> << >>,
     thrown |-> FALSE, exited |-> FALSE]

\* No operation has been called on the AclDatabase.
NoCall ==
    [op |-> "none", path |-> "", outcome |-> "none", prev |-> Null, same |-> FALSE,
     failed |-> FALSE, saves |-> 0, unchanged |-> FALSE, failures |-> 0, error |-> ""]

\* Callbacks handed to invalidateDebounced by a direct user of SkeletonCache.
Callbacks == {"none", "cb1"}

NoLast ==
    [op |-> "none", path |-> "", result |-> Null, hit |-> FALSE, same |-> FALSE,
     stored |-> Null, cb |-> "none", src |-> "", done |-> FALSE, refresh |-> FALSE,
     follows |-> Null, before |-> {}, others |-> {},
     hadRecord |-> FALSE, hadTimer |-> FALSE]

NoBurst == [n |-> 0, spread |-> FALSE, lastAt |-> 0, lastCb |-> "none", effects |-> 0]

\* Most calls of one burst that are counted one by one.
MaxBurst == 3

Min(a, b) == IF a <= b THEN a ELSE b

\* The LRUCache of the SkeletonCache: no history of its own is kept.
NoLru == [maxSize |-> MaxSkeletons, touched |-> << >>, pass |-> Null]

\* No getRelatedFiles call is running.
NoRelated ==
    [phase |-> "idle", path |-> "", depth |-> 0, queue |-> << >>, visited |-> << >>,
     turns |-> 0, result |-> << >>]

InitDisk == [f \in Files |-> IF f = "a.ts" THEN 2 ELSE IF f = "b.ts" THEN 4 ELSE 1]

Init ==
    /\ disk = InitDisk
    /\ now = 0
    /\ cache = << >>
    /\ debounceTimers = [f \in Files |-> 0]
    /\ scheduled = {}
    /\ skeletons = {}
    /\ import_graph = {}
    /\ sessions = {}
    /\ context_artifacts = {}
    /\ dbFile = Export(skeletons, import_graph, {}, {})
    /\ call = NoCall
    /\ lastContext = Null
    /\ anchor = dbFile
    /\ dbOpen = TRUE
    /\ initialized = TRUE
    /\ server = NoServer
    /\ pending = << >>
    /\ last = NoLast
    /\ lastSet = [f \in Files |-> Null]
    /\ burst = [f \in Files |-> NoBurst]
    /\ clean = [f \in Files |-> Null]
    /\ related = NoRelated
    /\ lru = NoLru

\* ------------------------------------------------------------ environment
\* Another process writes, creates or deletes a workspace file.
DiskWrite(p, c) ==
    /\ c # disk[p]
    /\ disk' = [disk EXCEPT ![p] = c]
    /\ last' = NoLast
    /\ clean' = [clean EXCEPT ![p] = Null]
    /\ UNCHANGED << serverVars, lru, related, now, cache, debounceTimers, scheduled, dbVars, pending,
                    lastSet, burst >>

\* Time passes.  The event loop takes no timer and lets no time pass while
\* microtasks are queued.
Tick ==
    /\ now < MaxTime
    /\ pending = << >>
    /\ now' = now + 1
    /\ last' = NoLast
    /\ UNCHANGED << serverVars, lru, related, disk, cache, debounceTimers, scheduled, dbVars, pending,
                    lastSet, burst, clean >>

\* ------------------------------------------- SkeletonCache, used directly
Skeletons(p) == { ParseFile([disk EXCEPT ![p] = c], p)[1] : c \in FileContents(p) }

\* History lastSet follows the entries: a path that left the cache has none.
KeepStored(ls, c) == [f \in Files |-> IF f \in CacheKeys(c) THEN ls[f] ELSE Null]

ScSet(p, s) ==
    /\ cache' = CacheSet(cache, disk, p, s, now)
    /\ lastSet' = KeepStored(
                    IF ComputeFileHash(disk, p) # HashNull
                    THEN [lastSet EXCEPT ![p] = Some([content |-> disk[p], value |-> s])]
                    ELSE lastSet, cache')
    /\ last' = [NoLast EXCEPT !.op = "set", !.path = p]
    /\ UNCHANGED << serverVars, lru, related, disk, now, debounceTimers, scheduled, dbVars, pending,
                    burst, clean >>

ScGetIfValid(p) ==
    LET r == GetIfValid(cache, disk, p, now) IN
    /\ cache' = r.cache
    /\ lastSet' = KeepStored(lastSet, cache')
    /\ last' = [NoLast EXCEPT !.op = "getIfValid", !.path = p, !.result = r.value,
                              !.hit = (p \in CacheKeys(cache)),
                              !.stored = lastSet[p],
                              !.same = (lastSet[p] # Null /\ lastSet[p][1].content = disk[p])]
    /\ UNCHANGED << serverVars, lru, related, disk, now, debounceTimers, scheduled, dbVars, pending,
                    burst, clean >>

\* History of invalidateDebounced(p, cb) at tick t.
BurstCall(b, timerPending, cb, t) ==
    IF timerPending /\ b.n > 0 /\ b.effects = 0
    THEN [b EXCEPT !.n = Min(b.n + 1, MaxBurst), !.lastAt = t, !.lastCb = cb,
                   !.spread = (b.spread \/ t > b.lastAt)]
    ELSE [NoBurst EXCEPT !.n = 1, !.lastAt = t, !.lastCb = cb]

ScInvalidateDebounced(p, cb) ==
    LET r == InvalidateDebounced(debounceTimers, scheduled, DebounceMs, p, cb, now) IN
    /\ now + DebounceMs <= MaxTime
    /\ Cardinality(r.scheduled) <= MaxTimers
    /\ debounceTimers' = r.timers
    /\ scheduled' = r.scheduled
    /\ burst' = [burst EXCEPT ![p] = BurstCall(burst[p], debounceTimers[p] # 0, cb, now)]
    /\ last' = [NoLast EXCEPT !.op = "invalidateDebounced", !.path = p, !.cb = cb]
    /\ UNCHANGED << serverVars, lru, related, disk, now, cache, dbVars, pending, lastSet, clean >>

ScInvalidate(p) ==
    LET r == Invalidate(cache, debounceTimers, scheduled, p) IN
    /\ cache' = r.cache
    /\ debounceTimers' = r.timers
    /\ scheduled' = r.scheduled
    /\ lastSet' = KeepStored(lastSet, cache')
    /\ burst' = [burst EXCEPT ![p] = NoBurst]
    /\ last' = [NoLast EXCEPT !.op = "invalidate", !.path = p,
                              !.hit = (p \in CacheKeys(cache)),
                              !.hadTimer = (debounceTimers[p] # 0)]
    /\ UNCHANGED << serverVars, lru, related, disk, now, dbVars, pending, clean >>

\* SkeletonCache.clear
ScClear ==
    /\ cache' = << >>
    /\ scheduled' = { tm \in scheduled : \A f \in Files : debounceTimers[f] # tm.id }
    /\ debounceTimers' = [f \in Files |-> 0]
    /\ lastSet' = [f \in Files |-> Null]
    /\ burst' = [f \in Files |-> NoBurst]
    /\ last' = [NoLast EXCEPT !.op = "clear"]
    /\ UNCHANGED << serverVars, lru, related, disk, now, dbVars, pending, clean >>

\* --------------------------------------------------------- timer callback
\* The arrow function invalidateDebounced hands to setTimeout, and the
\* callback it calls: "dbClear" is the one onFileChanged passes.
TimerFire(tm) ==
    /\ tm \in scheduled
    /\ now >= tm.due
    /\ pending = << >>
    /\ cache' = LRUDelete(cache, tm.path)
    /\ debounceTimers' = [debounceTimers EXCEPT ![tm.path] = 0]
    /\ scheduled' = scheduled \ {tm}
    /\ IF tm.cb = "dbClear"
       THEN LET db == OnFileChangedCallback(skeletons, import_graph, tm.path)
            IN  /\ skeletons' = db.skeletons
                /\ import_graph' = db.import_graph
                /\ dbFile' = Export(skeletons', import_graph', sessions, context_artifacts)
                /\ UNCHANGED << sessions, context_artifacts, call >>
       ELSE UNCHANGED dbVars
    /\ lastSet' = KeepStored(lastSet, cache')
    /\ burst' = IF burst[tm.path].n > 0
                THEN [burst EXCEPT ![tm.path].effects = Min(@ + 1, 2)]
                ELSE burst
    /\ clean' = [clean EXCEPT ![tm.path] = Null]
    /\ last' = [NoLast EXCEPT !.op = "timerFire", !.path = tm.path, !.cb = tm.cb,
                              !.hit = (tm.path \in CacheKeys(cache)),
                              !.hadRecord = (DbGetSkeleton(skeletons, tm.path) # Null),
                              !.before = GetImports(import_graph, tm.path)]
    /\ UNCHANGED << serverVars, lru, related, disk, now, pending >>

\* ------------------------------------------------------------ Cartographer
\* A getSkeleton call suspended at its await.
PendingCall(p, skeleton, refresh, before) ==
    [path |-> p, skeleton |-> skeleton, refresh |-> refresh, before |-> before]

\* History clean forgets a path whose entry left the cache.
Unevicted(cl, c, c2) ==
    [f \in Files |-> IF f \in CacheKeys(c) /\ f \notin CacheKeys(c2) THEN Null ELSE cl[f]]

\* A getSkeleton that starts no parse of a path while a call of the path is
\* suspended at the parser, and waits for that call.
GetSkeletonCallJoining(p, inFlight) ==
    LET g      == GetSkeletonSync(cache, skeletons, disk, p, now)
        joined == g.src = "parse" /\ \E i \in 1 .. Len(pending) : pending[i].path = p
    IN  /\ (g.src = "parse" /\ ~joined) => Len(pending) < inFlight
        /\ cache' = g.cache
        /\ pending' = IF g.src = "parse" /\ ~joined
                      THEN Append(pending, PendingCall(p, g.value, FALSE, {}))
                      ELSE pending
        /\ clean' = IF g.src = "parse"
                    THEN Unevicted(clean, cache, cache')
                    ELSE [Unevicted(clean, cache, cache') EXCEPT ![p] = Some(g.value)]
        /\ last' = [NoLast EXCEPT !.op = "getSkeleton", !.path = p,
                                  !.src = IF joined THEN "joined" ELSE g.src,
                                  !.done = (g.src # "parse"),
                                  !.result = IF g.src # "parse" THEN g.value ELSE Null,
                                  !.follows = clean[p]]
        /\ UNCHANGED << serverVars, lru, related, disk, now, debounceTimers, scheduled, dbVars,
                        lastSet, burst >>

\* Cartographer.getSkeleton, from the call to its return or its await, with
\* at most inFlight calls suspended at a time.
GetSkeletonCall(p, inFlight) ==
    LET g == GetSkeletonSync(cache, skeletons, disk, p, now) IN
    /\ g.src = "parse" => Len(pending) < inFlight
    /\ cache' = g.cache
    /\ pending' = IF g.src = "parse"
                  THEN Append(pending, PendingCall(p, g.value, FALSE, {}))
                  ELSE pending
    /\ clean' = IF g.src = "parse"
                THEN Unevicted(clean, cache, cache')
                ELSE [Unevicted(clean, cache, cache') EXCEPT ![p] = Some(g.value)]
    /\ last' = [NoLast EXCEPT !.op = "getSkeleton", !.path = p, !.src = g.src,
                              !.done = (g.src # "parse"),
                              !.result = IF g.src # "parse" THEN g.value ELSE Null,
                              !.follows = clean[p]]
    /\ UNCHANGED << serverVars, lru, related, disk, now, debounceTimers, scheduled, dbVars, lastSet, burst >>

\* A continuation that hands whatever parseFile returned to cache.set.
CacheParsedOrAbsent(c, d, p, skeleton, t) ==
    IF skeleton = Null THEN CacheSet(c, d, p, Null, t)
    ELSE CacheSet(c, d, p, skeleton[1], t)

\* What the continuation of getSkeleton leaves in the memory cache: it
\* returns before cache.set when parseFile returned null.
CacheParsed(c, d, p, skeleton, t) ==
    IF skeleton = Null THEN c ELSE CacheSet(c, d, p, skeleton[1], t)

\* Cartographer.getSkeleton after await parseFile: the oldest suspended call
\* resumes.
GetSkeletonResume ==
    /\ pending # << >>
    /\ LET item == Head(pending)
           p    == item.path
       IN  /\ IF item.skeleton = Null
              THEN /\ cache' = CacheParsed(cache, disk, p, item.skeleton, now)
                   /\ UNCHANGED dbVars
                   /\ clean' = [clean EXCEPT ![p] = Some(Null)]
              ELSE LET db == PersistSkeleton(skeletons, import_graph, disk, p,
                                             item.skeleton[1], now)
                   IN  /\ cache' = CacheParsed(cache, disk, p, item.skeleton, now)
                       /\ skeletons' = db.skeletons
                       /\ import_graph' = db.import_graph
                       /\ dbFile' = Export(skeletons', import_graph', sessions, context_artifacts)
                       /\ UNCHANGED << sessions, context_artifacts, call >>
                       /\ clean' = [Unevicted(clean, cache, cache')
                                       EXCEPT ![p] = Some(item.skeleton)]
           /\ last' = [NoLast EXCEPT !.op = "getSkeletonResume", !.path = p,
                                     !.src = "parse", !.done = TRUE,
                                     !.result = item.skeleton,
                                     !.refresh = item.refresh,
                                     !.before = IF item.refresh THEN item.before
                                                ELSE GetImports(import_graph, p),
                                     !.others = import_graph \ GetImports(import_graph, p)]
    /\ pending' = Tail(pending)
    /\ UNCHANGED << serverVars, lru, related, disk, now, debounceTimers, scheduled, lastSet, burst >>

GetSkeleton(p) == GetSkeletonCall(p, MaxPending)

\* Cartographer.refreshSkeleton, from the call to the await of the
\* getSkeleton it ends in.
RefreshSkeletonCall(p, inFlight) ==
    LET inv  == Invalidate(cache, debounceTimers, scheduled, p)
        tbl1 == DeleteSkeleton(skeletons, p)
        g1   == ClearImportsForFile(import_graph, p)
        g    == GetSkeletonSync(inv.cache, tbl1, disk, p, now)
    IN  /\ g.src = "parse" => Len(pending) < inFlight
        /\ cache' = g.cache
        /\ debounceTimers' = inv.timers
        /\ scheduled' = inv.scheduled
        /\ skeletons' = tbl1
        /\ import_graph' = g1
        /\ dbFile' = Export(skeletons', import_graph', sessions, context_artifacts)
        /\ UNCHANGED << sessions, context_artifacts, call >>
        /\ pending' = IF g.src = "parse"
                      THEN Append(pending, PendingCall(p, g.value, TRUE,
                                                       GetImports(import_graph, p)))
                      ELSE pending
        /\ clean' = IF g.src = "parse"
                    THEN [Unevicted(clean, cache, cache') EXCEPT ![p] = Null]
                    ELSE [Unevicted(clean, cache, cache') EXCEPT ![p] = Some(g.value)]
        /\ last' = [NoLast EXCEPT !.op = "refreshSkeleton", !.path = p, !.src = g.src,
                                  !.done = (g.src # "parse"),
                                  !.result = IF g.src # "parse" THEN g.value ELSE Null,
                                  !.hit = (GetIfValid(cache, disk, p, now).value # Null),
                                  !.hadRecord = (DbGetSkeleton(skeletons, p) # Null),
                                  !.hadTimer = (debounceTimers[p] # 0),
                                  !.before = GetImports(import_graph, p)]
        /\ UNCHANGED << serverVars, lru, related, disk, now, lastSet, burst >>

RefreshSkeleton(p) == RefreshSkeletonCall(p, MaxPending)

\* Cartographer.onFileChanged
OnFileChanged(p) ==
    LET r == InvalidateDebounced(debounceTimers, scheduled, ConfigDebounceMs, p,
                                 "dbClear", now) IN
    /\ now + ConfigDebounceMs <= MaxWait
    /\ Cardinality(r.scheduled) <= MaxTimers
    /\ debounceTimers' = r.timers
    /\ scheduled' = r.scheduled
    /\ last' = NoLast
    /\ UNCHANGED << serverVars, lru, related, disk, now, cache, dbVars, pending, lastSet, burst, clean >>

\* Time passes while the program waits for a timer.  The cartographer reads
\* the clock for accessedAt and updated_at only; no decision of it but the
\* timers' depends on the reading.
Wait ==
    /\ \E tm \in scheduled : now < tm.due
    /\ now < MaxWait
    /\ Tick

Next ==
    \/ \E p \in Rewritten : \E c \in RewriteContents \cup {Missing} : DiskWrite(p, c)
    \/ Wait
    \/ \E p \in Paths : GetSkeleton(p)
    \/ GetSkeletonResume
    \/ \E p \in Rewritten : RefreshSkeleton(p)
    \/ \E p \in Rewritten : OnFileChanged(p)
    \/ \E tm \in scheduled : TimerFire(tm)

Spec == Init /\ [][Next]_vars

\* The watched file alone: change events, refreshes and reads of the file
\* that is rewritten.
NextWatch ==
    \/ \E p \in Rewritten : \E c \in RewriteContents \cup {Missing} : DiskWrite(p, c)
    \/ Wait
    \/ \E p \in Rewritten : GetSkeleton(p)
    \/ GetSkeletonResume
    \/ \E p \in Rewritten : RefreshSkeleton(p)
    \/ \E p \in Rewritten : OnFileChanged(p)
    \/ \E tm \in scheduled : TimerFire(tm)

SpecWatch == Init /\ [][NextWatch]_vars

\* The event loop: the calls started in one turn of the loop are finitely
\* many, so the microtask queue drains again and again; time passes, and a
\* due timer runs in a turn that finds the queue empty.
SpecWatchFair ==
    /\ SpecWatch
    /\ []<>(pending = << >>)
    /\ SF_vars(Wait)
    /\ \A p \in Rewritten : SF_vars(\E tm \in scheduled : tm.path = p /\ TimerFire(tm))

\* Calls that race: several getSkeleton and refreshSkeleton calls of the
\* rewritten file suspended at await parseFile; no change events.  At the
\* start a getSkeleton("b.ts") has completed.
InitInFlight ==
    LET skeleton == ParseFile(InitDisk, "b.ts")[1]
        db       == PersistSkeleton({}, {}, InitDisk, "b.ts", skeleton, 0)
    IN  /\ disk = InitDisk
        /\ now = 0
        /\ cache = CacheSet(<< >>, InitDisk, "b.ts", skeleton, 0)
        /\ debounceTimers = [f \in Files |-> 0]
        /\ scheduled = {}
        /\ skeletons = db.skeletons
        /\ import_graph = db.import_graph
        /\ sessions = {}
        /\ context_artifacts = {}
        /\ dbFile = Export(skeletons, import_graph, {}, {})
        /\ call = NoCall
        /\ lastContext = Null
        /\ anchor = dbFile
        /\ dbOpen = TRUE
        /\ initialized = TRUE
        /\ server = NoServer
        /\ pending = << >>
        /\ last = NoLast
        /\ lastSet = [f \in Files |-> Null]
        /\ burst = [f \in Files |-> NoBurst]
        /\ clean = [f \in Files |-> Null]
        /\ related = NoRelated
        /\ lru = NoLru

NextInFlight ==
    \/ \E p \in Rewritten : \E c \in RewriteContents \cup {Missing} : DiskWrite(p, c)
    \/ \E p \in Rewritten : GetSkeletonCall(p, MaxInFlight)
    \/ GetSkeletonResume
    \/ \E p \in Rewritten : RefreshSkeletonCall(p, MaxInFlight)

SpecInFlight == InitInFlight /\ [][NextInFlight]_vars

\* ------------------------------------------ SkeletonCache used on its own
\* Fingerprint validation: set and getIfValid against a changing disk.
NextCache ==
    \/ \E p \in Paths : \E c \in FileContents(p) \cup {Missing} : DiskWrite(p, c)
    \/ Tick
    \/ \E p \in Paths : \E s \in Skeletons(p) : ScSet(p, s)
    \/ \E p \in Paths : ScGetIfValid(p)
    \/ \E p \in Paths : ScInvalidate(p)

SpecCache == Init /\ [][NextCache]_vars

\* Debounced invalidation: the timers of SkeletonCache on a quiet disk.
NextDebounce ==
    \/ Tick
    \/ ScSet("a.ts", ParseFile(disk, "a.ts")[1])
    \/ \E p \in Paths : \E cb \in Callbacks : ScInvalidateDebounced(p, cb)
    \/ \E p \in Paths : ScInvalidate(p)
    \/ ScClear
    \/ \E tm \in scheduled : TimerFire(tm)

SpecDebounce == Init /\ [][NextDebounce]_vars

\* The runtime runs a timer once it is due, and time does not stop.
SpecDebounceFair ==
    /\ SpecDebounce
    /\ WF_vars(Tick)
    /\ \A p \in Paths : WF_vars(\E tm \in scheduled : tm.path = p /\ TimerFire(tm))

\* ------------------------------------------------------ LRUCache on its own
\* Largest maxSize an LRUCache is constructed with.
MaxCapacity == 20
\* Largest of the small sizes; a cache of a small size is also read and
\* deleted from and has keys set again.
MaxSmallCapacity == 3
\* Last tick of the clock an LRUCache on its own reads.
MaxLruTime == 1
\* The keys that are read, deleted and set again; the other keys are set
\* once each time they are missing, the smallest missing key first.
MaxTouched == 2

\* The sizes caches are constructed with: the small ones, 0 among them as
\* the configuration is not validated, and the two largest.
Capacities ==
    { K \in 0 .. MaxCapacity : K <= MaxSmallCapacity \/ K >= MaxCapacity - 1 }

LruKeys == 1 .. (MaxCapacity + 1)

\* History of touches: the keys from the least to the most recently touched.
Touch(order, k) == SelectSeq(order, LAMBDA x : x # k) \o << k >>
Untouch(order, keys) == SelectSeq(order, LAMBDA x : x \notin keys)

FreshKey(c) ==
    LET missing == LruKeys \ CacheKeys(c)
    IN  CHOOSE k \in missing : \A j \in missing : k <= j

InitLRU ==
    /\ disk = InitDisk
    /\ now = 0
    /\ cache = << >>
    /\ debounceTimers = [f \in Files |-> 0]
    /\ scheduled = {}
    /\ skeletons = {}
    /\ import_graph = {}
    /\ sessions = {}
    /\ context_artifacts = {}
    /\ dbFile = Export(skeletons, import_graph, {}, {})
    /\ call = NoCall
    /\ lastContext = Null
    /\ anchor = dbFile
    /\ dbOpen = TRUE
    /\ initialized = TRUE
    /\ server = NoServer
    /\ pending = << >>
    /\ last = NoLast
    /\ lastSet = [f \in Files |-> Null]
    /\ burst = [f \in Files |-> NoBurst]
    /\ clean = [f \in Files |-> Null]
    /\ related = NoRelated
    /\ lru \in { [NoLru EXCEPT !.maxSize = K] : K \in Capacities }

\* LRUCache.set(key, value, hash); the value stored is the key.
LruSet(k) ==
    LET full    == Len(cache) >= lru.maxSize
        evicted == IF full
                   THEN CacheKeys(cache) \ CacheKeys(EvictOldest(cache, lru.maxSize))
                   ELSE {}
    IN  /\ k \notin CacheKeys(cache) => k = FreshKey(cache)
        /\ k \in CacheKeys(cache) => (k <= MaxTouched /\ lru.maxSize <= MaxSmallCapacity)
        /\ cache' = LRUSet(cache, lru.maxSize, k, k, HashEmpty, now)
        /\ lru' = [lru EXCEPT !.touched = Touch(Untouch(@, evicted), k),
                              !.pass = IF full
                                       THEN Some([evicted |-> evicted, before |-> cache,
                                                  order |-> lru.touched])
                                       ELSE Null]
        /\ UNCHANGED << serverVars, related, disk, now, debounceTimers, scheduled, dbVars, pending,
                        last, lastSet, burst, clean >>

\* LRUCache.get(key)
LruGet(k) ==
    LET r == LRUGet(cache, k, now) IN
    /\ lru.maxSize <= MaxSmallCapacity
    /\ cache' = r.cache
    /\ lru' = [lru EXCEPT !.touched = IF r.entry # Null THEN Touch(@, k) ELSE @,
                          !.pass = Null]
    /\ UNCHANGED << serverVars, related, disk, now, debounceTimers, scheduled, dbVars, pending,
                    last, lastSet, burst, clean >>

\* LRUCache.delete(key)
LruDelete(k) ==
    /\ lru.maxSize <= MaxSmallCapacity
    /\ cache' = LRUDelete(cache, k)
    /\ lru' = [lru EXCEPT !.touched = Untouch(@, {k}), !.pass = Null]
    /\ UNCHANGED << serverVars, related, disk, now, debounceTimers, scheduled, dbVars, pending,
                    last, lastSet, burst, clean >>

\* LRUCache.clear()
LruClear ==
    /\ cache' = << >>
    /\ lru' = [lru EXCEPT !.touched = << >>, !.pass = Null]
    /\ UNCHANGED << serverVars, related, disk, now, debounceTimers, scheduled, dbVars, pending,
                    last, lastSet, burst, clean >>

NextLRU ==
    \/ now < MaxLruTime /\ Tick
    \/ \E k \in LruKeys : LruSet(k)
    \/ \E k \in 1 .. MaxTouched : LruGet(k)
    \/ \E k \in 1 .. MaxTouched : LruDelete(k)
    \/ LruClear

SpecLRU == InitLRU /\ [][NextLRU]_vars

\* ------------------------------------------------ getRelatedFiles on its own
\* Most rows of table import_graph in a store the search is run on.
MaxEdges == 4

\* Rows the table can hold: every pair of files, self-pairs included, as a
\* static import, and two pairs a second time as a dynamic import (the table
\* is unique on source, target and type).
EdgeUniverse ==
    { EdgeRow(f, g, "static") : f \in SourceFiles, g \in SourceFiles }
        \cup { EdgeRow("a.ts", "b.ts", "dynamic"), EdgeRow("c.ts", "a.ts", "dynamic") }

InitGraph ==
    /\ disk = InitDisk
    /\ now = 0
    /\ cache = << >>
    /\ debounceTimers = [f \in Files |-> 0]
    /\ scheduled = {}
    /\ skeletons = {}
    /\ import_graph \in { g \in SUBSET EdgeUniverse : Cardinality(g) <= MaxEdges }
    /\ sessions = {}
    /\ context_artifacts = {}
    /\ dbFile = Export(skeletons, import_graph, {}, {})
    /\ call = NoCall
    /\ lastContext = Null
    /\ anchor = dbFile
    /\ dbOpen = TRUE
    /\ initialized = TRUE
    /\ server = NoServer
    /\ pending = << >>
    /\ last = NoLast
    /\ lastSet = [f \in Files |-> Null]
    /\ burst = [f \in Files |-> NoBurst]
    /\ clean = [f \in Files |-> Null]
    /\ related = NoRelated
    /\ lru = NoLru

\* getRelatedFiles(p, depth) up to its loop.
RelatedCall(p, depth) ==
    /\ related.phase # "loop"
    /\ related' = [NoRelated EXCEPT !.phase = "loop", !.path = p, !.depth = depth,
                                    !.queue = << QueueItem(p, 0) >>]
    /\ UNCHANGED << serverVars, lru, disk, now, cache, debounceTimers, scheduled, dbVars, pending,
                    last, lastSet, burst, clean >>

\* One turn of while (queue.length > 0).
RelatedTurn ==
    /\ related.phase = "loop"
    /\ related.queue # << >>
    /\ LET b == BfsStep([queue |-> related.queue, visited |-> related.visited],
                        import_graph, related.depth)
       IN  related' = [related EXCEPT !.queue = b.queue, !.visited = b.visited,
                                      !.turns = @ + 1]
    /\ UNCHANGED << serverVars, lru, disk, now, cache, debounceTimers, scheduled, dbVars, pending,
                    last, lastSet, burst, clean >>

\* The loop is left: visited.delete(absolutePath); return Array.from(visited).
RelatedReturn ==
    /\ related.phase = "loop"
    /\ related.queue = << >>
    /\ related' = [related EXCEPT !.phase = "returned",
                                  !.result = BfsResult(related.visited, related.path)]
    /\ UNCHANGED << serverVars, lru, disk, now, cache, debounceTimers, scheduled, dbVars, pending,
                    last, lastSet, burst, clean >>

NextGraph ==
    \/ \E p \in SourceFiles : \E depth \in 0 .. MaxDepth : RelatedCall(p, depth)
    \/ RelatedTurn
    \/ RelatedReturn

SpecGraph == InitGraph /\ [][NextGraph]_vars

\* -------------------------------------------------- AclDatabase on its own
\* Last value of the clock while the store is used on its own.
MaxStoreTime == 1
\* Most writes of the store file that fail in a row.
MaxWriteFailures == 1
\* Most store operations one persistSkeleton calls.
MaxStatements == 4
\* Most statements in the function handed to transaction().
MaxBatch == 2

\* Tables sessions and context_artifacts (the columns id and created_at are
\* left out: they only order the rows the list queries return).
SessionRow(id, ws, name, state, t) ==
    [session_id |-> id, workspace_path |-> ws, session_name |-> name,
     state_json |-> state, updated_at |-> t]

\* AclDatabase.upsertSession: INSERT ... ON CONFLICT(session_id) DO UPDATE
\* of state_json, session_name (COALESCE of the new and the old) and
\* updated_at.
UpsertSession(tbl, id, ws, state, name, t) ==
    IF \E r \in tbl : r.session_id = id
    THEN { IF r.session_id = id
           THEN [r EXCEPT !.state_json = state,
                          !.session_name = IF name # Null THEN name ELSE @,
                          !.updated_at = t]
           ELSE r : r \in tbl }
    ELSE tbl \cup {SessionRow(id, ws, name, state, t)}

\* AclDatabase.deleteSession
DeleteSession(tbl, id) == { r \in tbl : r.session_id # id }

ArtifactRow(id, type, scope, content, meta, t) ==
    [artifact_id |-> id, artifact_type |-> type, scope |-> scope,
     content |-> content, metadata_json |-> meta, updated_at |-> t]

\* AclDatabase.upsertArtifact: INSERT ... ON CONFLICT(artifact_id) DO UPDATE
\* of content, metadata_json and updated_at.
UpsertArtifact(tbl, id, type, scope, content, meta, t) ==
    IF \E r \in tbl : r.artifact_id = id
    THEN { IF r.artifact_id = id
           THEN [r EXCEPT !.content = content, !.metadata_json = meta,
                          !.updated_at = t]
           ELSE r : r \in tbl }
    ELSE tbl \cup {ArtifactRow(id, type, scope, content, meta, t)}

\* AclDatabase.deleteArtifact
DeleteArtifact(tbl, id) == { r \in tbl : r.artifact_id # id }

\* A call of one of the mutating operations: its name and its arguments.
Stmt(op, args) == [op |-> op, args |-> args]

\* db.run(sql, params) of the statement of operation s.op on the tables db,
\* at time t (datetime('now')).
Exec(db, s, t) ==
    CASE s.op = "upsertSkeleton" ->
           [db EXCEPT !.skeletons = UpsertSkeleton(@, s.args[1], s.args[2], s.args[3],
                                                   s.args[4], t)]
      [] s.op = "deleteSkeleton" ->
           [db EXCEPT !.skeletons = DeleteSkeleton(@, s.args[1])]
      [] s.op = "addImportEdge" ->
           [db EXCEPT !.import_graph = AddImportEdge(@, s.args[1], s.args[2], s.args[3])]
      [] s.op = "clearImportsForFile" ->
           [db EXCEPT !.import_graph = ClearImportsForFile(@, s.args[1])]
      [] s.op = "upsertSession" ->
           [db EXCEPT !.sessions = UpsertSession(@, s.args[1], s.args[2], s.args[3],
                                                 s.args[4], t)]
      [] s.op = "deleteSession" ->
           [db EXCEPT !.sessions = DeleteSession(@, s.args[1])]
      [] s.op = "upsertArtifact" ->
           [db EXCEPT !.context_artifacts = UpsertArtifact(@, s.args[1], s.args[2],
                                                           s.args[3], s.args[4],
                                                           s.args[5], t)]
      [] s.op = "deleteArtifact" ->
           [db EXCEPT !.context_artifacts = DeleteArtifact(@, s.args[1])]
      [] OTHER -> db

\* The tables in memory.
Tables == Export(skeletons, import_graph, sessions, context_artifacts)

\* AclDatabase.run on the tables and the file of st: db.run of the statement,
\* then save().  written says whether writeFileSync succeeds; when it throws
\* (disk full, file not writable) the file keeps what it held.
Run(st, s, t, written) ==
    LET db1 == Exec(st.db, s, t)
    IN  [db |-> db1, file |-> IF written THEN db1 ELSE st.file, threw |-> ~written]

\* Statements run in order through AclDatabase.run until one throws; the
\* write of statement number failAt fails (0: none does).
RECURSIVE RunAll(_, _, _, _)
RunAll(st, stmts, t, failAt) ==
    IF stmts = << >> \/ st.threw THEN st
    ELSE RunAll(Run(st, Head(stmts), t, failAt # 1), Tail(stmts), t, failAt - 1)

\* The skeleton parseFile returns for path p holding content c.
SkeletonOf(p, c) == ParseFile([f \in Files |-> c], p)[1]

\* AclDatabase.ensureDb when db is null: the operation throws before it
\* reaches the database or the file.
NotInitialized(op, path) ==
    /\ call' = [NoCall EXCEPT !.op = op, !.path = path, !.outcome = "threw",
                              !.error = "Database not initialized. Call init() first.",
                              !.unchanged = TRUE]
    /\ UNCHANGED << skeletons, import_graph, sessions, context_artifacts, dbFile >>
    /\ UNCHANGED << serverVars, lru, related, disk, now, cache, debounceTimers, scheduled,
                    pending, last, lastSet, burst, clean >>

\* One of the eight mutating operations, called on its own: ensureDb, db.run
\* and save.
StoreCall(s, written) ==
    IF ~dbOpen THEN NotInitialized(s.op, s.args[1])
    ELSE
    LET r    == Run([db |-> Tables, file |-> dbFile, threw |-> FALSE], s, now, written)
        prev == IF s.op = "upsertSkeleton" THEN DbGetSkeleton(skeletons, s.args[1])
                ELSE Null
    IN  /\ written \/ call.failures < MaxWriteFailures
        /\ skeletons' = r.db.skeletons
        /\ import_graph' = r.db.import_graph
        /\ sessions' = r.db.sessions
        /\ context_artifacts' = r.db.context_artifacts
        /\ dbFile' = r.file
        /\ call' = [NoCall EXCEPT
                       !.op = s.op, !.path = s.args[1],
                       !.outcome = IF r.threw THEN "threw" ELSE "returned",
                       !.failed = ~written,
                       !.prev = prev,
                       !.same = /\ prev # Null
                                /\ prev[1].file_hash = s.args[2]
                                /\ prev[1].language = s.args[3]
                                /\ prev[1].skeleton_json = s.args[4],
                       !.saves = IF written THEN 1 ELSE 0,
                       !.unchanged = (r.db = Tables /\ r.file = dbFile),
                       !.failures = IF written THEN 0 ELSE call.failures + 1]
        /\ UNCHANGED << serverVars, lru, related, disk, now, cache, debounceTimers, scheduled,
                        pending, last, lastSet, burst, clean >>

\* The arguments the operations are called with.
StorePaths == {"a.ts", "b.ts"}
StoreContents == {2, 3}
SessionIds == {"s1"}
SessionStates == {1, 2}
SessionNames == {Null}
ArtifactIds == {"x1"}
ArtifactContents == {1}

DbUpsertSkeleton(p, c, written) ==
    StoreCall(Stmt("upsertSkeleton",
                   << p, Md5(c), "typescript", JsonStringify(SkeletonOf(p, c)) >>), written)

DbDeleteSkeleton(p, written) == StoreCall(Stmt("deleteSkeleton", << p >>), written)

DbAddImportEdge(src, tgt, written) ==
    StoreCall(Stmt("addImportEdge", << src, tgt, "static" >>), written)

DbClearImportsForFile(p, written) ==
    StoreCall(Stmt("clearImportsForFile", << p >>), written)

DbUpsertSession(id, state, name, written) ==
    StoreCall(Stmt("upsertSession", << id, "/w", state, name >>), written)

DbDeleteSession(id, written) == StoreCall(Stmt("deleteSession", << id >>), written)

DbUpsertArtifact(id, content, written) ==
    StoreCall(Stmt("upsertArtifact", << id, "decision", "/w", content, Null >>), written)

DbDeleteArtifact(id, written) == StoreCall(Stmt("deleteArtifact", << id >>), written)

\* The addImportEdge calls of the loop of persistSkeleton, in its order.
RECURSIVE EdgeStatements(_, _, _)
EdgeStatements(d, filePath, imports) ==
    IF imports = << >> THEN << >>
    ELSE LET imp    == Head(imports)
             target == IF IsLocalSource(imp.source)
                       THEN ResolveImportPath(d, filePath, imp.source)
                       ELSE Null
         IN  (IF target # Null
              THEN << Stmt("addImportEdge", << filePath, target[1], ImportType(imp) >>) >>
              ELSE << >>)
             \o EdgeStatements(d, filePath, Tail(imports))

\* The store operations persistSkeleton calls, in its order.
PersistStatements(d, filePath, skeleton) ==
    LET hash == IF d[filePath] = Missing THEN HashEmpty ELSE Md5(d[filePath])
    IN  << Stmt("upsertSkeleton",
                << filePath, hash, skeleton.language, JsonStringify(skeleton) >>),
           Stmt("clearImportsForFile", << filePath >>) >>
        \o EdgeStatements(d, filePath, skeleton.imports)

\* Cartographer.persistSkeleton(p, skeleton) for the skeleton of content c;
\* the write of its statement number failAt fails (0: none does) and the
\* exception leaves persistSkeleton.
PersistSkeletonCall(p, c, failAt) ==
    LET stmts == PersistStatements(disk, p, SkeletonOf(p, c))
        r     == RunAll([db |-> Tables, file |-> dbFile, threw |-> FALSE],
                        stmts, now, failAt)
    IN  /\ failAt <= Len(stmts)
        /\ failAt = 0 \/ call.failures < MaxWriteFailures
        /\ skeletons' = r.db.skeletons
        /\ import_graph' = r.db.import_graph
        /\ dbFile' = r.file
        /\ call' = [NoCall EXCEPT
                       !.op = "persistSkeleton", !.path = p,
                       !.outcome = IF r.threw THEN "threw" ELSE "returned",
                       !.failed = (failAt # 0),
                       !.saves = IF failAt = 0 THEN Len(stmts) ELSE failAt - 1,
                       !.unchanged = (r.db = Tables /\ r.file = dbFile),
                       !.failures = IF failAt = 0 THEN 0 ELSE call.failures + 1]
        /\ UNCHANGED << serverVars, sessions, context_artifacts, lru, related, disk, now, cache,
                        debounceTimers, scheduled, pending, last, lastSet, burst, clean >>

\* AclDatabase.run inside transaction(fn).  st.open says whether the
\* transaction begun by BEGIN TRANSACTION is still open, st.begin is what the
\* tables held at BEGIN.  save() calls db.export(), which closes and reopens
\* the connection of sql.js; closing a connection rolls its open transaction
\* back.  ends says whether the build of sql.js behaves so; if not, the
\* transaction stays open and the export holds the uncommitted rows.
TxRun(st, s, t, written, ends) ==
    LET db1 == Exec(st.db, s, t)
        db2 == IF st.open /\ ends THEN st.begin ELSE db1
    IN  [st EXCEPT !.db = db2,
                   !.open = st.open /\ ~ends,
                   !.file = IF written THEN db2 ELSE @,
                   !.saves = IF written THEN @ + 1 ELSE @,
                   !.threw = ~written]

RECURSIVE TxRunAll(_, _, _, _, _)
TxRunAll(st, stmts, t, failAt, ends) ==
    IF stmts = << >> \/ st.threw THEN st
    ELSE TxRunAll(TxRun(st, Head(stmts), t, failAt # 1, ends), Tail(stmts), t,
                  failAt - 1, ends)

\* The statements a function handed to transaction() runs.
BatchStatements ==
    { Stmt("upsertSkeleton",
           << "a.ts", Md5(2), "typescript", JsonStringify(SkeletonOf("a.ts", 2)) >>),
      Stmt("clearImportsForFile", << "a.ts" >>),
      Stmt("addImportEdge", << "a.ts", "b.ts", "static" >>),
      Stmt("upsertSession", << "s1", "/w", 1, Null >>) }

RECURSIVE SeqsUpTo(_, _)
SeqsUpTo(S, n) ==
    IF n = 0 THEN { << >> }
    ELSE SeqsUpTo(S, n - 1)
         \cup { Append(q, x) : q \in { r \in SeqsUpTo(S, n - 1) : Len(r) = n - 1 }, x \in S }

\* AclDatabase.transaction(fn), fn calling the operations of stmts in order.
\* The write of statement number failAt fails (0: none does); fnThrows: fn
\* throws by itself after its last statement.
Transaction(stmts, failAt, fnThrows, ends) ==
    LET st0  == [db |-> Tables, file |-> dbFile, open |-> TRUE, begin |-> Tables,
                 saves |-> 0, threw |-> FALSE]
        st1  == TxRunAll(st0, stmts, now, failAt, ends)
        \* fn returned and COMMIT found its transaction open
        committed == ~st1.threw /\ ~fnThrows /\ st1.open
        \* catch: ROLLBACK undoes the open transaction; with none open it
        \* throws, and that error reaches the caller instead
        db2  == IF ~committed /\ st1.open THEN st1.begin ELSE st1.db
    IN  /\ failAt <= Len(stmts)
        /\ failAt = 0 \/ call.failures < MaxWriteFailures
        /\ fnThrows => failAt = 0
        /\ skeletons' = db2.skeletons
        /\ import_graph' = db2.import_graph
        /\ sessions' = db2.sessions
        /\ context_artifacts' = db2.context_artifacts
        /\ dbFile' = IF committed THEN st1.db ELSE st1.file
        /\ call' = [NoCall EXCEPT
                       !.op = "transaction",
                       !.outcome = IF committed THEN "returned" ELSE "threw",
                       !.failed = (failAt # 0 \/ fnThrows),
                       !.saves = st1.saves + (IF committed THEN 1 ELSE 0),
                       !.unchanged = (db2 = Tables /\ dbFile' = dbFile),
                       !.failures = IF failAt = 0 THEN 0 ELSE call.failures + 1]
        /\ UNCHANGED << serverVars, lru, related, disk, now, cache, debounceTimers, scheduled,
                        pending, last, lastSet, burst, clean >>

\* The skeleton operations alone.
NextUpsert ==
    \/ now < MaxStoreTime /\ Tick
    \/ \E p \in StorePaths, c \in StoreContents, w \in BOOLEAN : DbUpsertSkeleton(p, c, w)
    \/ \E p \in StorePaths, w \in BOOLEAN : DbDeleteSkeleton(p, w)

SpecUpsert == Init /\ [][NextUpsert]_vars

\* The eight mutating operations and persistSkeleton, for one file.
NextStore ==
    \/ now < MaxStoreTime /\ Tick
    \/ \E p \in Rewritten, c \in StoreContents, w \in BOOLEAN : DbUpsertSkeleton(p, c, w)
    \/ \E p \in Rewritten, w \in BOOLEAN : DbDeleteSkeleton(p, w)
    \/ \E p \in Rewritten, w \in BOOLEAN : DbAddImportEdge(p, "b.ts", w)
    \/ \E p \in Rewritten, w \in BOOLEAN : DbClearImportsForFile(p, w)
    \/ \E id \in SessionIds, st \in SessionStates, n \in SessionNames, w \in BOOLEAN :
           DbUpsertSession(id, st, n, w)
    \/ \E id \in SessionIds, w \in BOOLEAN : DbDeleteSession(id, w)
    \/ \E id \in ArtifactIds, c \in ArtifactContents, w \in BOOLEAN :
           DbUpsertArtifact(id, c, w)
    \/ \E id \in ArtifactIds, w \in BOOLEAN : DbDeleteArtifact(id, w)
    \/ \E p \in Rewritten, c \in StoreContents, k \in 0 .. MaxStatements :
           PersistSkeletonCall(p, c, k)

SpecStore == Init /\ [][NextStore]_vars

\* transaction() handed functions of up to MaxBatch statements.
NextTxn ==
    \/ now < MaxStoreTime /\ Tick
    \/ \E p \in Rewritten, w \in BOOLEAN : DbDeleteSkeleton(p, w)
    \/ \E stmts \in SeqsUpTo(BatchStatements, MaxBatch), k \in 0 .. MaxBatch,
          t \in BOOLEAN, e \in BOOLEAN :
           Transaction(stmts, k, t, e)

SpecTxn == Init /\ [][NextTxn]_vars

\* ------------------------------------------- getSkeleton of unparsable files
\* The paths asked for: the rewritten file, which may be deleted, and a file
\* in a language parseFile does not support.
AbsentPaths == Rewritten \cup (Files \ SourceFiles)

NextAbsent ==
    \/ \E p \in Rewritten : \E c \in RewriteContents \cup {Missing} : DiskWrite(p, c)
    \/ \E p \in AbsentPaths : GetSkeleton(p)
    \/ GetSkeletonResume
    \/ \E p \in AbsentPaths : RefreshSkeleton(p)

SpecAbsent == Init /\ [][NextAbsent]_vars

\* ------------------------------------------------------------------ claims

\* C1: fingerprint invariant of SkeletonCache.  A getIfValid(F) that finds an
\* entry for F returns the skeleton given to the set that stored the entry
\* when F's content is what it was at that set; when the content differs or
\* F is missing it returns absent and F has no entry after the call.
C1_FingerprintInvariant ==
    (last.op = "getIfValid" /\ last.hit) =>
        IF last.same
        THEN last.stored # Null /\ last.result = Some(last.stored[1].value)
        ELSE last.result = Null /\ last.path \notin CacheKeys(cache)

\* A getIfValid that found the entry of a rewritten, still existing file.
C1_Witness ==
    /\ last.op = "getIfValid" /\ last.hit /\ ~last.same
    /\ last.stored # Null
    /\ disk[last.path] # Missing

\* C3: debounce coalescing.  The calls of invalidateDebounced(P, cb) made
\* while P's timer is pending have one effect: when a timer of P fires, it
\* is the first effect since the burst began, P has no entry and no timer
\* left, the callback run is the one of the last call, and the last call is
\* at least one debounce window back; and a burst that is not cancelled by
\* invalidate or clear does get its effect.
C3_DebounceCoalescing ==
    /\ [](/\ \A p \in Paths : burst[p].effects <= 1
          /\ last.op = "timerFire" =>
                /\ last.cb = burst[last.path].lastCb
                /\ now >= burst[last.path].lastAt + DebounceMs
                /\ last.path \notin CacheKeys(cache)
                /\ debounceTimers[last.path] = 0
                /\ \A tm \in scheduled : tm.path # last.path)
    /\ \A p \in Paths :
          (burst[p].n > 0 /\ burst[p].effects = 0)
              ~> (burst[p].effects = 1 \/ burst[p].n = 0)

\* The effect of a burst of three calls spread over several ticks, with an
\* entry to remove: it comes after the window of the first call has passed.
C3_Witness ==
    /\ last.op = "timerFire" /\ last.cb = "cb1"
    /\ burst[last.path].n = 3 /\ burst[last.path].spread
    /\ burst[last.path].effects = 1
    /\ last.hit

\* C2: hash-based invalidation end to end.  A getSkeleton(P) that returns
\* in the block in which it was called returns the skeleton of P's content
\* as it is on disk at the call: absent when P is missing, else its parse.
C2_HashBasedInvalidation ==
    (last.op = "getSkeleton" /\ last.done) => last.result = ParseFile(disk, last.path)

\* C4: onFileChanged.  The timer set by onFileChanged(P) removes, in the one
\* block in which it fires, P's memory entry, P's store record and every
\* edge with source P; and once onFileChanged(P) has set the timer, the
\* timer fires unless a refreshSkeleton(P) cancels it.
C4_OnFileChangedClearsBoth ==
    /\ []((last.op = "timerFire" /\ last.cb = "dbClear") =>
             /\ last.path \notin CacheKeys(cache)
             /\ DbGetSkeleton(skeletons, last.path) = Null
             /\ GetImports(import_graph, last.path) = {}
             /\ debounceTimers[last.path] = 0)
    /\ \A p \in Rewritten :
          (debounceTimers[p] # 0)
              ~> (last.path = p /\ last.op \in {"timerFire", "refreshSkeleton"})

\* The timer of onFileChanged fires for a file that had a memory entry, a
\* store record and edges.
C4_Witness ==
    /\ last.op = "timerFire" /\ last.cb = "dbClear"
    /\ last.hit /\ last.hadRecord /\ last.before # {}

\* The edge rows persistSkeleton is to leave for source p: one per local
\* import of the skeleton that resolves to a file at the time of persisting.
DerivedEdges(d, p, skeleton) ==
    { EdgeRow(p, ResolveImportPath(d, p, skeleton.imports[i].source)[1],
              ImportType(skeleton.imports[i])) :
        i \in { j \in 1 .. Len(skeleton.imports) :
                  /\ IsLocalSource(skeleton.imports[j].source)
                  /\ ResolveImportPath(d, p, skeleton.imports[j].source) # Null } }

\* C5: edge replacement.  When a parsed skeleton of S is persisted, the
\* store's edges with source S are exactly the ones derived from the
\* skeleton's local imports, whatever edges S had before, and the edges of
\* every other source are what they were.
C5_EdgeReplacement ==
    (last.op = "getSkeletonResume" /\ last.result # Null) =>
        /\ GetImports(import_graph, last.path)
              = DerivedEdges(disk, last.path, last.result[1])
        /\ import_graph \ GetImports(import_graph, last.path) = last.others

\* A second parse of a.ts persisted over the edges of the first: one edge
\* is gone, one is retained, one is new, and b.ts has edges of its own.
C5_Witness ==
    /\ last.op = "getSkeletonResume" /\ ~last.refresh /\ last.result # Null
    /\ \E e \in last.before : e \notin import_graph
    /\ \E e \in last.before : e \in import_graph
    /\ \E e \in GetImports(import_graph, last.path) : e \notin last.before
    /\ last.others # {}

C7_ServedFromMemory ==
    (last.op = "getSkeleton" /\ last.follows # Null /\ last.follows[1] # Null) =>
        /\ last.src = "memory"
        /\ last.result = last.follows[1]

\* C7 amended: the same for a P that exists on disk.
C7_ServedFromMemoryReadable ==
    (/\ last.op = "getSkeleton" /\ last.follows # Null /\ last.follows[1] # Null
     /\ disk[last.path] # Missing) =>
        /\ last.src = "memory"
        /\ last.done
        /\ last.result = last.follows[1]

\* A second getSkeleton of an existing file right after the first returned
\* its skeleton.
C7_Witness ==
    /\ last.op = "getSkeleton" /\ last.follows # Null /\ last.follows[1] # Null
    /\ disk[last.path] # Missing
    /\ last.src = "memory"

\* C8: refreshSkeleton(P) goes to the parser in every state; when its block
\* ends at await parseFile, P has no memory entry, no store record, no edge
\* of which it is the source and no debounce timer.
C8_RefreshAlwaysParses ==
    last.op = "refreshSkeleton" =>
        /\ last.src = "parse"
        /\ pending # << >>
        /\ pending[Len(pending)].path = last.path /\ pending[Len(pending)].refresh
        /\ last.path \notin CacheKeys(cache)
        /\ DbGetSkeleton(skeletons, last.path) = Null
        /\ GetImports(import_graph, last.path) = {}
        /\ debounceTimers[last.path] = 0
        /\ \A tm \in scheduled : tm.path # last.path

\* A refresh of a file that had a valid memory entry, a store record, edges
\* and a pending timer.
C8_Witness ==
    /\ last.op = "refreshSkeleton"
    /\ last.hit /\ last.hadRecord /\ last.hadTimer /\ last.before # {}

\* The refreshSkeleton(a.ts) that returned found the import of './b' gone
\* from a.ts, which had an edge to b.ts before the refresh.
ImportOfBRemoved ==
    /\ last.op = "getSkeletonResume" /\ last.refresh /\ last.path = "a.ts"
    /\ last.result # Null
    /\ \A i \in 1 .. Len(last.result[1].imports) : last.result[1].imports[i].source # "./b"
    /\ \E e \in last.before : e.target_path = "b.ts"

\* C9 as stated: after the import of './b' is removed from a.ts and
\* refreshSkeleton(a.ts) completes, getRelatedFiles(a.ts, 1) does not
\* contain the path of b.
C9_RemovedImportUnrelated ==
    ImportOfBRemoved => "b.ts" \notin SeqToSet(GetRelatedFiles(import_graph, "a.ts", 1))

\* C9 amended: then no edge from a.ts to b remains, and getRelatedFiles(a.ts,
\* 1) contains the path of b only when the store holds an edge from b to a.ts.
C9_RemovedImportNoEdge ==
    ImportOfBRemoved =>
        /\ \A e \in GetImports(import_graph, "a.ts") : e.target_path # "b.ts"
        /\ "b.ts" \in SeqToSet(GetRelatedFiles(import_graph, "a.ts", 1))
              <=> \E e \in GetImports(import_graph, "b.ts") : e.target_path = "a.ts"

\* The refresh completes in a store without edges of b.ts: b is unrelated.
C9_Witness ==
    /\ ImportOfBRemoved
    /\ GetImports(import_graph, "b.ts") = {}
    /\ "b.ts" \notin SeqToSet(GetRelatedFiles(import_graph, "a.ts", 1))

\* C10: getRelatedFiles(P, d) returns exactly the files other than P within d
\* hops of P when edges are followed in both directions, for every edge set
\* with cycles, self-edges and doubled pairs: P is not in the result, no
\* file is in it twice, and the loop ends within one turn per queued item,
\* of which there are at most one and two per edge.
Neighbours(g, n) ==
    { e.target_path : e \in { x \in g : x.source_path = n } }
        \cup { e.source_path : e \in { x \in g : x.target_path = n } }

RECURSIVE Within(_, _, _)
Within(g, p, d) ==
    IF d = 0 THEN {p}
    ELSE LET w == Within(g, p, d - 1) IN w \cup UNION { Neighbours(g, n) : n \in w }

C10_RelatedFiles ==
    /\ related.phase = "loop" =>
           related.turns + Len(related.queue) <= 1 + (2 * Cardinality(import_graph))
    /\ related.phase = "returned" =>
           /\ SeqToSet(related.result)
                 = Within(import_graph, related.path, related.depth) \ {related.path}
           /\ Cardinality(SeqToSet(related.result)) = Len(related.result)
           /\ related.path \notin SeqToSet(related.result)
           /\ related.result = GetRelatedFiles(import_graph, related.path, related.depth)

\* A search of depth 1 that returns a file, leaves a farther one out, and
\* ran over a self-edge and over a pair of files joined by two rows.
C10_Witness ==
    /\ related.phase = "returned" /\ related.depth = 1
    /\ related.result # << >>
    /\ Within(import_graph, related.path, 2) # Within(import_graph, related.path, 1)
    /\ \E e \in import_graph : e.source_path = e.target_path /\ e.source_path = related.path
    /\ \E e \in import_graph : e.import_type = "dynamic"
           /\ EdgeRow(e.source_path, e.target_path, "static") \in import_graph

\* C11: related-files symmetry.  For every edge set, files A and B and depth
\* d, B is in getRelatedFiles(A, d) exactly when A is in getRelatedFiles(B,
\* d); an edge between A and another file, in either direction, puts that
\* file in getRelatedFiles(A, d) for d >= 1; and getRelatedFiles(A, 0) is
\* empty.
C11_RelatedSymmetry ==
    related.phase = "returned" =>
        /\ \A B \in Files :
              B \in SeqToSet(related.result)
                <=> related.path \in SeqToSet(GetRelatedFiles(import_graph, B, related.depth))
        /\ related.depth = 0 => related.result = << >>
        /\ related.depth >= 1 =>
              \A e \in import_graph :
                  /\ (e.source_path = related.path /\ e.target_path # related.path)
                        => e.target_path \in SeqToSet(related.result)
                  /\ (e.target_path = related.path /\ e.source_path # related.path)
                        => e.source_path \in SeqToSet(related.result)

\* A search of depth 1 from the target of an edge that has no edge back and
\* no other edge at the origin: the importer is found.
C11_Witness ==
    /\ related.phase = "returned" /\ related.depth = 1
    /\ GetImports(import_graph, related.path) = {}
    /\ Cardinality(GetImporters(import_graph, related.path)) = 1
    /\ Len(related.result) = 1

TouchRank(order, k) == CHOOSE i \in 1 .. Len(order) : order[i] = k

\* C13: eviction in strict recency order.  In every eviction pass each
\* evicted entry was touched, by set or get, before every entry that stays.
C13_StrictRecencyOrder ==
    lru.pass # Null =>
        LET ps == lru.pass[1] IN
        \A e \in ps.evicted : \A k \in SeqToSet(ps.order) \ ps.evicted :
            TouchRank(ps.order, e) < TouchRank(ps.order, k)

\* C14: eviction batch size.  For a capacity K >= 1 every eviction pass on a
\* full cache removes at least one entry and at least 10% of K entries.
C14_EvictionBatchSize ==
    (lru.pass # Null /\ lru.maxSize >= 1) =>
        /\ Cardinality(lru.pass[1].evicted) >= 1
        /\ Cardinality(lru.pass[1].evicted) * 10 >= lru.maxSize

\* C15: idempotent upsert.  For any sequence of upserts the table holds at
\* most one skeleton record per path; an upsert of a path with the content its
\* record already holds leaves exactly one record of the path, with that
\* content and with updated_at not earlier than before.
C15_IdempotentUpsert ==
    /\ \A r1 \in skeletons, r2 \in skeletons : r1.file_path = r2.file_path => r1 = r2
    /\ (call.op = "upsertSkeleton" /\ call.same) =>
          LET rows == { r \in skeletons : r.file_path = call.path }
          IN  /\ Cardinality(rows) = 1
              /\ \A r \in rows :
                    /\ r.file_hash = call.prev[1].file_hash
                    /\ r.language = call.prev[1].language
                    /\ r.skeleton_json = call.prev[1].skeleton_json
                    /\ r.updated_at >= call.prev[1].updated_at

\* A second upsert with the content of the first has run at a later time, next
\* to the record of another path.
C15_Witness ==
    /\ call.op = "upsertSkeleton"
    /\ call.same
    /\ Cardinality(skeletons) = 2
    /\ \E r \in skeletons : r.file_path = call.path /\ r.updated_at > call.prev[1].updated_at
\* C16: store write failure mid-batch.  When a write fails at a statement of
\* persistSkeleton, the caller sees the error and the tables in memory and the
\* file hold what they held before the batch.
C16_BatchRolledBack ==
    (call.op = "persistSkeleton" /\ call.failed) =>
        (call.outcome = "threw" /\ call.unchanged)

\* C17: transaction(fn).  When no statement of fn fails, the call returns and
\* the store was written to the file exactly once; when one fails, the call
\* throws, the file was not written and the tables and the file hold what
\* they held before.
C17_TransactionSerializesOnce ==
    call.op = "transaction" =>
        /\ ~call.failed => (call.outcome = "returned" /\ call.saves = 1)
        /\ call.failed => (call.outcome = "threw" /\ call.saves = 0 /\ call.unchanged)

\* C18: whenever no store operation is in progress, the file equals the
\* tables in memory.
C18_FileEqualsMemory == dbFile = Tables
\* C19: not-found is absent at every layer.  A getSkeleton(P) or
\* refreshSkeleton(P) called while P does not exist on disk returns absent,
\* whatever the memory cache and the store hold for P.
C19_NotFoundIsAbsent ==
    (last.op \in {"getSkeleton", "refreshSkeleton"} /\ disk[last.path] = Missing) =>
        IF last.done THEN last.result = Null
        ELSE pending # << >> /\ pending[Len(pending)].skeleton = Null
\* C20: an absence is never cached.  A getSkeleton(P) that reaches the parser
\* and gets absent from it changes neither the memory cache nor the skeleton
\* records nor the import edges, in the call and in its continuation; the
\* continuation returns absent, and a getSkeleton(P) that would reach the
\* parser before the return reaches it after the return too.
C20_AbsenceNeverCached ==
    [][ /\ \A p \in AbsentPaths :
              (GetSkeleton(p) /\ pending' # pending
                 /\ pending'[Len(pending')].skeleton = Null)
              => (cache' = cache /\ skeletons' = skeletons /\ import_graph' = import_graph)
        /\ (pending # << >> /\ GetSkeletonResume /\ Head(pending).skeleton = Null)
              => /\ cache' = cache
                 /\ skeletons' = skeletons
                 /\ import_graph' = import_graph
                 /\ last'.done /\ last'.result = Null
                 /\ GetSkeletonSync(cache, skeletons, disk, Head(pending).path, now).src
                        = "parse"
                    => GetSkeletonSync(cache', skeletons', disk', Head(pending).path,
                                       now').src = "parse"
      ]_vars

\* A getSkeleton of an existing file in an unsupported language has returned
\* absent while the cache and the store hold another file, and the next
\* getSkeleton of the path reaches the parser.
C20_Witness ==
    /\ last.op = "getSkeletonResume"
    /\ last.result = Null
    /\ ~last.refresh
    /\ last.path \notin SourceFiles
    /\ disk[last.path] # Missing
    /\ cache # << >>
    /\ skeletons # {}
    /\ GetSkeletonSync(cache, skeletons, disk, last.path, now).src = "parse"

\* ------------------------------------------------- Shadow and its watcher
\* Shadow.onFileChanged, the listener of the watcher's fileChanged, which
\* the watcher emits for chokidar's add and change.  The server never calls
\* prepareContext, so lastContext is null and the context is not prepared
\* again.
ShadowOnFileChanged(p) ==
    /\ disk[p] # Missing
    /\ lastContext # Some(p)
    /\ OnFileChanged(p)

\* Shadow.onFileDeleted, the listener of the watcher's fileDeleted, which
\* the watcher emits for chokidar's unlink.
ShadowOnFileDeleted(p) ==
    /\ disk[p] = Missing
    /\ lastContext' = IF lastContext = Some(p) THEN Null ELSE lastContext
    /\ last' = [NoLast EXCEPT !.op = "fileDeleted", !.path = p,
                              !.hit = (p \in CacheKeys(cache)),
                              !.hadRecord = (DbGetSkeleton(skeletons, p) # Null),
                              !.before = GetImports(import_graph, p)]
    /\ UNCHANGED << anchor, dbOpen, initialized, server, lru, related, disk, now, cache,
                    debounceTimers, scheduled, dbVars, pending, lastSet, burst, clean >>

\* The server with its watcher running: files change on disk, the watcher
\* reports it, and getSkeleton is called.
NextShadow ==
    \/ \E p \in Rewritten : \E c \in RewriteContents \cup {Missing} : DiskWrite(p, c)
    \/ Wait
    \/ \E p \in Rewritten : GetSkeleton(p)
    \/ GetSkeletonResume
    \/ \E p \in Rewritten : ShadowOnFileChanged(p)
    \/ \E p \in Rewritten : ShadowOnFileDeleted(p)
    \/ \E tm \in scheduled : TimerFire(tm)

SpecShadow == Init /\ [][NextShadow]_vars

\* The event loop, as in SpecWatchFair.
SpecShadowFair ==
    /\ SpecShadow
    /\ []<>(pending = << >>)
    /\ SF_vars(Wait)
    /\ \A p \in Rewritten : SF_vars(\E tm \in scheduled : tm.path = p /\ TimerFire(tm))

\* C21: deleted event.  After the watcher's deleted event for P, and the
\* quiet period, the memory entry, the store record and the outgoing edges
\* of P are gone, and P is a source of no file getRelatedFiles reports.
C21_DeletedEventClears ==
    \A p \in Rewritten :
        (last.op = "fileDeleted" /\ last.path = p)
            ~> (/\ p \notin CacheKeys(cache)
                /\ DbGetSkeleton(skeletons, p) = Null
                /\ GetImports(import_graph, p) = {}
                /\ \A f \in Files \ {p} :
                      f \in SeqToSet(GetRelatedFiles(import_graph, p, 1))
                          => \E e \in GetImports(import_graph, f) : e.target_path = p)

\* ------------------------------------------------- Anchor and the server
\* Anchor.saveSession: upsertSession on the AclDatabase the Anchor has opened
\* on the file of the server's database; its run saves its own tables.
AnchorSaveSession(id, state) ==
    /\ anchor' = Exec(anchor, Stmt("upsertSession", << id, "/w", JsonStringify(state), Null >>),
                      now)
    /\ dbFile' = anchor'
    /\ last' = [NoLast EXCEPT !.op = "saveSession", !.path = id,
                              !.hadRecord = (dbFile.skeletons # {})]
    /\ UNCHANGED << lastContext, dbOpen, initialized, server, lru, related, disk, now,
                    cache, debounceTimers, scheduled, skeletons, import_graph, sessions,
                    context_artifacts, call, pending, lastSet, burst, clean >>

\* What Anchor.restoreSession returns from the tables db.
RestoreSession(db, id) ==
    IF \E r \in db.sessions : r.session_id = id
    THEN Some(JsonParse((CHOOSE r \in db.sessions : r.session_id = id).state_json))
    ELSE Null

\* Anchor.restoreSession
AnchorRestoreSession(id) ==
    /\ last' = [NoLast EXCEPT !.op = "restoreSession", !.path = id,
                              !.result = RestoreSession(anchor, id)]
    /\ UNCHANGED << serverVars, lru, related, disk, now, cache, debounceTimers, scheduled,
                    dbVars, pending, lastSet, burst, clean >>

\* AclServer.stop and the start of the server on the same workspace.  stop
\* closes the Anchor and then the database, and each close saves its own
\* tables to the file; initWithWorkspace opens both on the file again, with
\* a new Cartographer and an empty memory cache.
ServerRestart ==
    /\ pending = << >>
    /\ scheduled = {}
    /\ dbFile' = Tables
    /\ anchor' = dbFile'
    /\ lastContext' = Null
    /\ cache' = << >>
    /\ debounceTimers' = [f \in Files |-> 0]
    /\ lastSet' = [f \in Files |-> Null]
    /\ clean' = [f \in Files |-> Null]
    /\ last' = [NoLast EXCEPT !.op = "restart"]
    /\ UNCHANGED << dbOpen, initialized, server, lru, related, disk, now, scheduled,
                    skeletons, import_graph, sessions, context_artifacts, call, pending,
                    burst >>

\* The server with sessions: files are rewritten, skeletons are read and
\* refreshed, sessions are saved and restored, and the server is stopped
\* and started again.
NextSession ==
    \/ \E p \in Rewritten : \E c \in RewriteContents : DiskWrite(p, c)
    \/ \E p \in Rewritten : GetSkeleton(p)
    \/ GetSkeletonResume
    \/ \E p \in Rewritten : RefreshSkeleton(p)
    \/ \E id \in SessionIds : \E s \in SessionStates : AnchorSaveSession(id, s)
    \/ \E id \in SessionIds : AnchorRestoreSession(id)
    \/ ServerRestart

SpecSession == Init /\ [][NextSession]_vars

\* C22: sessions and skeletons in one file.  A session the Anchor holds when
\* the server stops is returned by restoreSession after the restart, and
\* saveSession leaves the skeleton records and the edges of the file as
\* they are.
C22_SessionsSurviveRestart ==
    [][ /\ ServerRestart =>
              \A id \in SessionIds : RestoreSession(anchor', id) = RestoreSession(anchor, id)
        /\ \A id \in SessionIds : \A s \in SessionStates :
              AnchorSaveSession(id, s) =>
                  /\ dbFile'.skeletons = dbFile.skeletons
                  /\ dbFile'.import_graph = dbFile.import_graph
      ]_vars

\* ------------------------------------------------------------ mapDirectory
\* Largest maxDepth handed to mapDirectory.
MaxMapDepth == 1

\* config.includeZones and config.excludeZones of the default configuration.
IncludeZones == {}
ExcludeZones == {"node_modules", ".git", "dist"}

\* join(dir, entry), relative to the workspace.
Join(dir, entry) == IF dir = "." THEN entry ELSE dir \o "/" \o entry

\* readdirSync(dir) on disk d: the names in dir, null when it throws.
ReadDir(d, dir) ==
    CASE dir = "." ->
           Some(SelectSeq(<< "a.ts", "b.ts", "c.ts", "lib", "node_modules", "notes.md" >>,
                          LAMBDA e : e \in Files => d[e] # Missing))
      [] dir = "lib" -> Some(<< "README.md", "data.bin", "deep" >>)
      [] dir = "lib/deep" -> Some(<< "go.mod" >>)
      [] dir = "node_modules" -> Some(<< "package.json" >>)
      [] OTHER -> Null

\* Cartographer.isExcluded
IsExcluded(includeZones, excludeZones, relativePath) ==
    IF includeZones # {} /\ ~\E zone \in includeZones : StartsWith(relativePath, zone)
    THEN TRUE
    ELSE \E zone \in excludeZones :
            relativePath = zone \/ StartsWith(relativePath, zone \o "/")

\* Cartographer.isSupportedFile
IsSupportedFile(filename) ==
    filename \in {"package.json", "tsconfig.json", "pyproject.toml", "Cargo.toml",
                  "go.mod", "README.md", ".env.example"}

\* The language of a path of the tree, as detectLanguage finds it.
TreeLanguage(relativePath) ==
    IF relativePath \in Files THEN DetectLanguage(relativePath) ELSE Null

\* The entry of result.files for a file.
FileEntry(relativePath) ==
    [path |-> relativePath, relativePath |-> relativePath,
     language |-> TreeLanguage(relativePath)]

\* The zones of the configuration the Cartographer is constructed with.
Zones(includeZones, excludeZones) ==
    [includeZones |-> includeZones, excludeZones |-> excludeZones]

DefaultZones == Zones(IncludeZones, ExcludeZones)

\* Cartographer.walkDirectory under configuration config: WalkEntries is
\* its for loop over the entries left to visit.
RECURSIVE WalkDirectory(_, _, _, _, _, _)
RECURSIVE WalkEntries(_, _, _, _, _, _, _)
WalkDirectory(config, d, dir, result, depth, maxDepth) ==
    IF depth > maxDepth \/ ReadDir(d, dir) = Null THEN result
    ELSE WalkEntries(config, d, dir, ReadDir(d, dir)[1], result, depth, maxDepth)

WalkEntries(config, d, dir, entries, result, depth, maxDepth) ==
    IF entries = << >> THEN result
    ELSE LET entry        == Head(entries)
             relativePath == Join(dir, entry)
             visited ==
                 IF IsExcluded(config.includeZones, config.excludeZones, relativePath)
                 THEN result
                 ELSE IF relativePath \in Directories
                 THEN WalkDirectory(config, d, relativePath,
                                    [result EXCEPT !.subdirectories = Append(@, relativePath)],
                                    depth + 1, maxDepth)
                 ELSE IF TreeLanguage(relativePath) # Null \/ IsSupportedFile(entry)
                 THEN [result EXCEPT !.files = Append(@, FileEntry(relativePath)),
                                     !.totalFiles = @ + 1]
                 ELSE result
         IN  WalkEntries(config, d, dir, Tail(entries), visited, depth, maxDepth)

\* What Cartographer.mapDirectory returns on disk d under configuration
\* config.
DirectoryMapIn(config, d, dirPath, maxDepth) ==
    WalkDirectory(config, d, dirPath,
                  [path |-> dirPath, relativePath |-> dirPath, files |-> << >>,
                   subdirectories |-> << >>, totalFiles |-> 0],
                  0, maxDepth)

\* What it returns under the default configuration.
DirectoryMap(d, dirPath, maxDepth) == DirectoryMapIn(DefaultZones, d, dirPath, maxDepth)

\* A mapDirectory that warms the memory cache with the files of the root it
\* lists, as getSkeleton reads them.
MapDirectoryWarming(dirPath, maxDepth) ==
    /\ last' = [NoLast EXCEPT !.op = "mapDirectory", !.path = dirPath,
                              !.result = Some(DirectoryMap(disk, dirPath, maxDepth))]
    /\ cache' = IF dirPath = "."
                THEN GetSkeletonSync(cache, skeletons, disk, "a.ts", now).cache
                ELSE cache
    /\ lastSet' = KeepStored(lastSet, cache')
    /\ clean' = Unevicted(clean, cache, cache')
    /\ UNCHANGED << serverVars, lru, related, disk, now, debounceTimers, scheduled,
                    dbVars, pending, burst >>

\* Cartographer.mapDirectory
MapDirectory(dirPath, maxDepth) ==
    /\ last' = [NoLast EXCEPT !.op = "mapDirectory", !.path = dirPath,
                              !.result = Some(DirectoryMap(disk, dirPath, maxDepth))]
    /\ UNCHANGED << serverVars, lru, related, disk, now, cache, debounceTimers, scheduled,
                    dbVars, pending, lastSet, burst, clean >>

\* The directories mapDirectory is called with: the root, a subdirectory
\* and a path that is no directory.
MappedDirs == {".", "lib", "nowhere"}

\* The Cartographer within one reading of the clock, and mapDirectory
\* called at any moment: files are rewritten and deleted, skeletons are
\* read, and change events leave their timers pending.
NextMap ==
    \/ \E p \in Rewritten : \E c \in RewriteContents \cup {Missing} : DiskWrite(p, c)
    \/ \E p \in Rewritten : GetSkeleton(p)
    \/ GetSkeletonResume
    \/ \E p \in Rewritten : OnFileChanged(p)
    \/ \E dir \in MappedDirs : \E k \in 0 .. MaxMapDepth : MapDirectory(dir, k)

SpecMap == Init /\ [][NextMap]_vars

\* The disk with every existing file of the root holding other bytes.
Rewrites(d) == [f \in Files |-> IF d[f] = Missing THEN Missing ELSE 1]

\* C23: mapDirectory is metadata-only.  A call of mapDirectory leaves the
\* memory cache, the debounce timers, the skeleton records, the edges and
\* the store file as they are, starts no parse, and returns what it would
\* return if the files held other bytes.
C23_MapDirectoryMetadataOnly ==
    [][ \A dir \in MappedDirs : \A k \in 0 .. MaxMapDepth :
          (last'.op = "mapDirectory" /\ MapDirectory(dir, k)) =>
              /\ cache' = cache
              /\ debounceTimers' = debounceTimers
              /\ scheduled' = scheduled
              /\ skeletons' = skeletons
              /\ import_graph' = import_graph
              /\ dbFile' = dbFile
              /\ pending' = pending
              /\ last'.result = Some(DirectoryMap(Rewrites(disk), dir, k))
      ]_vars

\* mapDirectory of the root has listed files while the memory cache holds a
\* stale entry, a timer is pending and the store holds a record and edges.
C23_Witness ==
    /\ last.op = "mapDirectory" /\ last.path = "."
    /\ last.result[1].totalFiles >= 3
    /\ last.result[1].subdirectories # << >>
    /\ \E i \in 1 .. Len(cache) : cache[i].hash # ComputeFileHash(disk, cache[i].key)
    /\ scheduled # {}
    /\ skeletons # {}
    /\ import_graph # {}

\* C24: one timer per path.  The timer map has an entry for P exactly when
\* one timer of P is scheduled and has neither fired nor been cancelled, the
\* entry is that timer, and one burst of invalidateDebounced calls has at
\* most one effect.
C24_OneTimerPerPath ==
    \A p \in Files :
        /\ Cardinality({ tm \in scheduled : tm.path = p }) <= 1
        /\ debounceTimers[p] # 0 <=> \E tm \in scheduled : tm.path = p
        /\ \A tm \in scheduled : tm.path = p => tm.id = debounceTimers[p]
        /\ burst[p].effects <= 1

\* The timer of a burst of three calls fires, as the burst's only effect,
\* while the timer of another path is pending.
C24_Witness ==
    /\ last.op = "timerFire"
    /\ burst[last.path].n = 3
    /\ burst[last.path].effects = 1
    /\ debounceTimers[last.path] = 0
    /\ \E q \in Files \ {last.path} : debounceTimers[q] # 0

\* C25: immediate invalidation.  Right after invalidate(P) the cache has no
\* entry of P and no timer of P is in the map or scheduled; and a timer that
\* fires belongs to a burst of invalidateDebounced calls begun after the
\* last invalidate or clear of its path, so a cancelled timer never fires.
C25_InvalidateCancelsTimer ==
    /\ last.op = "invalidate" =>
          /\ last.path \notin CacheKeys(cache)
          /\ debounceTimers[last.path] = 0
          /\ \A tm \in scheduled : tm.path # last.path
    /\ last.op = "timerFire" => burst[last.path].n > 0

\* invalidate has removed an entry and cancelled the timer of its path while
\* the timer of another path stays scheduled.
C25_Witness ==
    /\ last.op = "invalidate"
    /\ last.hit
    /\ last.hadTimer
    /\ scheduled # {}

EdgeContents == {3, 4, 6}

\* A file importing files, packages and a directory is rewritten, read and
\* refreshed, while one of the imported files comes and goes.
NextEdges ==
    \/ \E c \in EdgeContents : DiskWrite("a.ts", c)
    \/ \E c \in {Missing, 1} : DiskWrite("c.ts", c)
    \/ GetSkeleton("a.ts")
    \/ GetSkeletonResume
    \/ RefreshSkeleton("a.ts")

SpecEdges == Init /\ [][NextEdges]_vars

\* C27: only local imports become edges.  Every edge of the store has a
\* target that is the path of a file of the workspace, and the edges
\* persistSkeleton leaves for a file come from its imports that start with
\* the relative-path marker.
C27_OnlyLocalFileEdges ==
    /\ \A e \in import_graph : e.target_path \in Files \cup TreeFiles
    /\ (last.op = "getSkeletonResume" /\ last.result # Null) =>
          \A e \in GetImports(import_graph, last.path) :
             \E i \in 1 .. Len(last.result[1].imports) :
                /\ StartsWith(last.result[1].imports[i].source, ".")
                /\ ResolveImportPath(disk, last.path, last.result[1].imports[i].source)
                      = Some(e.target_path)

\* SkeletonCache.set and getIfValid on files that are rewritten and deleted,
\* within one reading of the clock.
NextSet ==
    \/ \E p \in Paths : \E c \in FileContents(p) \cup {Missing} : DiskWrite(p, c)
    \/ \E p \in Paths : \E s \in Skeletons(p) : ScSet(p, s)
    \/ \E p \in Paths : ScGetIfValid(p)

SpecSet == Init /\ [][NextSet]_vars

\* C28: fingerprint unavailable.  A set(P, s) made while the fingerprint of
\* P cannot be computed leaves the memory cache as it is, a getIfValid(P)
\* made then returns absent and leaves no entry of P, and every entry of
\* the memory cache carries the fingerprint of a file's bytes.
C28_FingerprintUnavailable ==
    [][ /\ \A p \in Paths : \A s \in Skeletons(p) :
              (ScSet(p, s) /\ ComputeFileHash(disk, p) = HashNull) => cache' = cache
        /\ \A p \in Paths :
              (ScGetIfValid(p) /\ ComputeFileHash(disk, p) = HashNull)
              => (last'.result = Null /\ p \notin CacheKeys(cache'))
        /\ \A i \in 1 .. Len(cache') : cache'[i].hash \notin {HashNull, HashEmpty}
      ]_vars

\* set has been called for a deleted file while the cache holds the entry
\* stored for the file before its deletion: the entry is still there.
C28_Witness ==
    /\ last.op = "set"
    /\ disk[last.path] = Missing
    /\ last.path \in CacheKeys(cache)
    /\ lastSet[last.path] # Null

\* C29: duplicate parses.  A getSkeleton(P) called while a getSkeleton(P) is
\* suspended at the parser and the store holds no record of P finds no
\* valid memory entry either and goes to the parser itself with the file as
\* it is on disk; and every call that resumes with a skeleton writes it to
\* the store, whichever calls of the path did so before.
C29_DuplicateParses ==
    [][ /\ \A p \in Rewritten :
              (/\ GetSkeletonCall(p, MaxInFlight)
               /\ \E i \in 1 .. Len(pending) : pending[i].path = p /\ ~pending[i].refresh
               /\ DbGetSkeleton(skeletons, p) = Null)
              => /\ GetIfValid(cache, disk, p, now).value = Null
                 /\ last'.src = "parse"
                 /\ pending' = Append(pending, PendingCall(p, ParseFile(disk, p), FALSE, {}))
        /\ (pending # << >> /\ GetSkeletonResume /\ Head(pending).skeleton # Null)
              => /\ DbGetSkeleton(skeletons', Head(pending).path) # Null
                 /\ DbGetSkeleton(skeletons', Head(pending).path)[1].skeleton_json
                       = JsonStringify(Head(pending).skeleton[1])
                 /\ dbFile' = Export(skeletons', import_graph', sessions', context_artifacts')
      ]_vars

\* Two getSkeleton calls of one path are suspended with the skeleton each
\* has parsed from the same bytes: the parser has run twice for a file that
\* did not change.
C29_Witness ==
    /\ Len(pending) >= 2
    /\ pending[1].path = pending[2].path
    /\ ~pending[1].refresh /\ ~pending[2].refresh
    /\ pending[1].skeleton # Null
    /\ pending[1].skeleton = pending[2].skeleton
    /\ pending[1].skeleton = ParseFile(disk, pending[1].path)
    /\ clean[pending[1].path] = Null

\* C30: per-file atomicity of the read-through.  While a getSkeleton(P) is
\* between its lookup and its write-back, no getSkeleton(P), no
\* refreshSkeleton(P) and no timer of P takes a step; the next step on P is
\* the write-back of the suspended call.
C30_ReadThroughAtomic ==
    [][ \A p \in Rewritten :
          (\E i \in 1 .. Len(pending) : pending[i].path = p /\ ~pending[i].refresh)
          => ~(/\ last'.path = p
               /\ last'.op \in {"getSkeleton", "refreshSkeleton", "timerFire"})
      ]_vars

\* C31: concurrent duplicate write-back.  When a getSkeleton(P) writes back
\* over the record another call of P has written since its lookup, the store
\* holds one record of P and the edges with source P that this call would
\* have written as the only one: none twice, none missing, none left over.
C31_DuplicateWriteBack ==
    [][ (/\ pending # << >>
         /\ GetSkeletonResume
         /\ Head(pending).skeleton # Null
         /\ ~Head(pending).refresh
         /\ DbGetSkeleton(skeletons, Head(pending).path) # Null)
        => LET p      == Head(pending).path
               single == PersistSkeleton({}, {}, disk, p, Head(pending).skeleton[1], now)
           IN  /\ { r \in skeletons' : r.file_path = p } = single.skeletons
               /\ Cardinality({ r \in skeletons' : r.file_path = p }) = 1
               /\ GetImports(import_graph', p) = single.import_graph
               /\ dbFile'.skeletons = skeletons'
               /\ dbFile'.import_graph = import_graph'
      ]_vars

\* The file was never rewritten, and a getSkeleton that found neither entry
\* nor record at its lookup has written back over edges that were there: the
\* later of two racing calls has completed.
C31_Witness ==
    /\ last.op = "getSkeletonResume" /\ ~last.refresh /\ last.result # Null
    /\ disk[last.path] = InitDisk[last.path]
    /\ last.before # {}
    /\ last.before = GetImports(import_graph, last.path)
    /\ DbGetSkeleton(skeletons, last.path) # Null
    /\ last.result = ParseFile(disk, last.path)
    /\ pending = << >>

\* The store holds of p what a parse of the bytes p has now would persist:
\* no record and no edge when the file gives no skeleton, else the record with
\* the fingerprint of the bytes and the edges of their local imports.
ReflectsContent(p) ==
    LET parsed == ParseFile(disk, p)
        record == DbGetSkeleton(skeletons, p)
    IN  IF parsed = Null
        THEN record = Null /\ GetImports(import_graph, p) = {}
        ELSE /\ record # Null
             /\ record[1].file_hash = Md5(disk[p])
             /\ record[1].skeleton_json = JsonStringify(parsed[1])
             /\ GetImports(import_graph, p) = DerivedEdges(disk, p, parsed[1])

\* C32: debounced re-parse.  After the debounce timer of P, set by change
\* events, has run, P is parsed again without a further request: unless a
\* later request, event or rewrite comes first, the store's record and
\* outgoing edges of P come to reflect the bytes P has.
C32_DebouncedReparse ==
    \A p \in Rewritten :
        (last.op = "timerFire" /\ last.path = p /\ last.cb = "dbClear")
            ~> (ReflectsContent(p) \/ last.op # "timerFire")

\* What is written to the rewritten file where the frame of a step is checked.
FrameContents == {3, Missing}

\* Two paths and one cache slot per bound: reads of both paths, with
\* rewrites, refreshes, change events and the timer of the rewritten one.
NextFrame ==
    \/ \E p \in Rewritten : \E c \in FrameContents : DiskWrite(p, c)
    \/ Wait
    \/ \E p \in Paths : GetSkeleton(p)
    \/ GetSkeletonResume
    \/ \E p \in Rewritten : RefreshSkeleton(p)
    \/ \E p \in Rewritten : OnFileChanged(p)
    \/ \E tm \in scheduled : TimerFire(tm)

SpecFrame == Init /\ [][NextFrame]_vars

\* The skeleton and fingerprint the memory cache holds of p, if any.
EntryOf(c, p) ==
    IF p \in CacheKeys(c)
    THEN Some([value |-> c[CacheIndex(c, p)].value, hash |-> c[CacheIndex(c, p)].hash])
    ELSE Null

\* The step is refreshSkeleton(p) or the run of p's debounce timer.
ExplicitInvalidation(p) ==
    /\ last'.path = p
    /\ last'.op \in {"refreshSkeleton", "timerFire"}

\* C33 as stated: the memory entry and the store record of P go only with
\* refreshSkeleton(P) or the run of P's debounce timer, and a step of
\* another path neither removes nor alters them.
C33_RemovedOnlyByInvalidation ==
    [][ \A p \in Files :
          /\ (EntryOf(cache, p) # Null /\ EntryOf(cache', p) = Null)
                => ExplicitInvalidation(p)
          /\ (DbGetSkeleton(skeletons, p) # Null /\ DbGetSkeleton(skeletons', p) = Null)
                => ExplicitInvalidation(p)
          /\ (EntryOf(cache, p) # Null /\ EntryOf(cache', p) # EntryOf(cache, p))
                => last'.path = p
          /\ (DbGetSkeleton(skeletons, p) # Null
                /\ DbGetSkeleton(skeletons', p) # DbGetSkeleton(skeletons, p))
                => last'.path = p
      ]_vars

\* C33, amended.  The store record of P goes only with refreshSkeleton(P) or
\* the run of P's debounce timer, and the record and the edges with source P
\* change only in a step of P.  The memory entry of P goes with these two,
\* with a getSkeleton(P) that finds the fingerprint of the file changed, and
\* with the eviction a cache.set of another path makes when the cache is
\* full; an entry that stays is altered only by a step of P.
C33_Frame ==
    [][ \A p \in Files :
          /\ (EntryOf(cache, p) # Null /\ EntryOf(cache', p) = Null)
                => \/ ExplicitInvalidation(p)
                   \/ /\ last'.op = "getSkeleton" /\ last'.path = p
                      /\ ComputeFileHash(disk, p) # EntryOf(cache, p)[1].hash
                   \/ /\ last'.op \in {"getSkeleton", "getSkeletonResume"}
                      /\ last'.path # p
                      /\ last'.path \in CacheKeys(cache')
                      /\ Len(cache) >= MaxSkeletons
          /\ (DbGetSkeleton(skeletons, p) # Null /\ DbGetSkeleton(skeletons', p) = Null)
                => ExplicitInvalidation(p)
          /\ (EntryOf(cache, p) # Null /\ EntryOf(cache', p) # Null
                /\ EntryOf(cache', p) # EntryOf(cache, p))
                => last'.path = p
          /\ (DbGetSkeleton(skeletons, p) # Null
                /\ DbGetSkeleton(skeletons', p) # DbGetSkeleton(skeletons, p))
                => last'.path = p
          /\ GetImports(import_graph', p) # GetImports(import_graph, p)
                => last'.path = p
      ]_vars

\* A getSkeleton of b.ts has completed and left b.ts in the memory cache
\* where a.ts was; the record and the edges of a.ts are in the store.
C33_Witness ==
    /\ last.op = "getSkeletonResume" /\ last.path = "b.ts"
    /\ "b.ts" \in CacheKeys(cache)
    /\ "a.ts" \notin CacheKeys(cache)
    /\ clean["a.ts"] = Null
    /\ DbGetSkeleton(skeletons, "a.ts") # Null
    /\ GetImports(import_graph, "a.ts") # {}

\* ------------------------------------------- debounced invalidation, framed
\* A Cartographer that has read a.ts and then b.ts: the records and edges of
\* both are in the store, the memory cache holds the one read last.
InitQuiet ==
    LET a   == ParseFile(InitDisk, "a.ts")[1]
        b   == ParseFile(InitDisk, "b.ts")[1]
        db1 == PersistSkeleton({}, {}, InitDisk, "a.ts", a, 0)
        db  == PersistSkeleton(db1.skeletons, db1.import_graph, InitDisk, "b.ts", b, 0)
    IN  /\ disk = InitDisk
        /\ now = 0
        /\ cache = CacheSet(CacheSet(<< >>, InitDisk, "a.ts", a, 0), InitDisk, "b.ts", b, 0)
        /\ debounceTimers = [f \in Files |-> 0]
        /\ scheduled = {}
        /\ skeletons = db.skeletons
        /\ import_graph = db.import_graph
        /\ sessions = {}
        /\ context_artifacts = {}
        /\ dbFile = Export(skeletons, import_graph, {}, {})
        /\ call = NoCall
        /\ lastContext = Null
        /\ anchor = dbFile
        /\ dbOpen = TRUE
        /\ initialized = TRUE
        /\ server = NoServer
        /\ pending = << >>
        /\ last = NoLast
        /\ lastSet = [f \in Files |-> Null]
        /\ burst = [f \in Files |-> NoBurst]
        /\ clean = [f \in Files |-> Null]
        /\ related = NoRelated
        /\ lru = NoLru

\* invalidateDebounced called with and without a callback, and by
\* onFileChanged, on a quiet disk.
NextQuiet ==
    \/ Tick
    \/ \E p \in Paths : ScSet(p, ParseFile(disk, p)[1])
    \/ \E p \in Paths : ScInvalidateDebounced(p, "none")
    \/ \E p \in Paths : OnFileChanged(p)
    \/ \E tm \in scheduled : TimerFire(tm)

SpecQuiet == InitQuiet /\ [][NextQuiet]_vars

\* The timers of the runtime that belong to paths other than p.
TimersOfOthers(sched, p) == { tm \in sched : tm.path # p }

MaxZoneDepth == 2

\* Configurations loaded from .acl/config.json: include zones among a
\* directory of the root and a directory nested in it, the default exclude
\* zones with and without the nested directory.
ZoneConfigs ==
    { Zones(inc, exc) : inc \in SUBSET {"lib", "lib/deep"},
                        exc \in {ExcludeZones, ExcludeZones \cup {"lib/deep"}} }

\* Cartographer.mapDirectory of a Cartographer constructed with config.
MapDirectoryIn(config, dirPath, maxDepth) ==
    /\ last' = [NoLast EXCEPT !.op = "mapDirectory", !.path = dirPath,
                              !.stored = Some(config), !.follows = Some(maxDepth),
                              !.result = Some(DirectoryMapIn(config, disk, dirPath, maxDepth))]
    /\ UNCHANGED << serverVars, lru, related, disk, now, cache, debounceTimers, scheduled,
                    dbVars, pending, lastSet, burst, clean >>

NextZones ==
    \/ \E p \in Paths : \E c \in FileContents(p) \cup {Missing} : DiskWrite(p, c)
    \/ \E config \in ZoneConfigs : \E k \in 0 .. MaxZoneDepth : MapDirectoryIn(config, ".", k)

SpecZones == Init /\ [][NextZones]_vars

\* Number of directories between the root and the file.
RECURSIVE DirDepth(_)
DirDepth(path) ==
    IF path = "" THEN 0
    ELSE (IF SubSeq(path, 1, 1) = "/" THEN 1 ELSE 0) + DirDepth(SubSeq(path, 2, Len(path)))

\* The last name of a path.
RECURSIVE BaseName(_)
BaseName(path) ==
    IF \E i \in 1 .. Len(path) : SubSeq(path, i, i) = "/"
    THEN BaseName(SubSeq(path, 2, Len(path)))
    ELSE path

\* The path is the zone or lies below it.
Under(path, zone) == path = zone \/ StartsWith(path, zone \o "/")

\* The files of the workspace on disk d that are supported, lie at most
\* maxDepth directories deep, under no exclude zone and, when include zones
\* are configured, under one of them.
ZoneFiles(config, d, maxDepth) ==
    { f \in { g \in Files : d[g] # Missing } \cup TreeFiles :
        /\ TreeLanguage(f) # Null \/ IsSupportedFile(BaseName(f))
        /\ DirDepth(f) <= maxDepth
        /\ ~\E zone \in config.excludeZones : Under(f, zone)
        /\ config.includeZones = {} \/ \E zone \in config.includeZones : Under(f, zone) }

\* C35: zone filtering.  mapDirectory('.', maxDepth) returns exactly the
\* supported files within the depth bound that lie under no exclude zone and,
\* when include zones are configured, under an include zone, so every such
\* file of an include zone nested in another directory too; and totalFiles
\* is the number of files returned.
C35_ZoneFiltering ==
    (last.op = "mapDirectory" /\ last.stored # Null) =>
        LET result == last.result[1] IN
        /\ { result.files[i].relativePath : i \in 1 .. Len(result.files) }
              = ZoneFiles(last.stored[1], disk, last.follows[1])
        /\ result.totalFiles = Len(result.files)

\* The edges persistSkeleton can derive from the imports of a skeleton of
\* s, whatever files exist: one per local import, to a path resolveImportPath
\* tries for it.
DerivableEdges(s, skeleton) ==
    { EdgeRow(s, ResolveCandidates(skeleton.imports[i].source)[k],
              ImportType(skeleton.imports[i])) :
        i \in { j \in 1 .. Len(skeleton.imports) : IsLocalSource(skeleton.imports[j].source) },
        k \in 1 .. 5 }

\* C36: no orphan edges.  Whenever no call is suspended, a source with an
\* edge in the store has a record there and its edges come from the imports
\* of that record; and the record and the edges of a source change together:
\* both are removed, or the record is written and the edges become those
\* derived from its imports on the disk of that moment.
C36_NoOrphanEdges ==
    /\ [](pending = << >> =>
            \A s \in Files :
                LET record == DbGetSkeleton(skeletons, s)
                    edges  == GetImports(import_graph, s)
                IN  /\ edges # {} => record # Null
                    /\ record # Null =>
                          edges \subseteq DerivableEdges(s, JsonParse(record[1].skeleton_json)))
    /\ [][ \A s \in Files :
             (\/ GetImports(import_graph', s) # GetImports(import_graph, s)
              \/ DbGetSkeleton(skeletons', s) # DbGetSkeleton(skeletons, s))
                => \/ /\ DbGetSkeleton(skeletons', s) = Null
                      /\ GetImports(import_graph', s) = {}
                   \/ /\ DbGetSkeleton(skeletons', s) # Null
                      /\ GetImports(import_graph', s)
                            = DerivedEdges(disk, s,
                                  JsonParse(DbGetSkeleton(skeletons', s)[1].skeleton_json))
         ]_vars

\* No call is suspended; the store holds the record of a.ts with two edges
\* persisted when the file had other bytes than now, and the record of b.ts
\* with its edges.
C36_Witness ==
    /\ pending = << >>
    /\ DbGetSkeleton(skeletons, "a.ts") # Null
    /\ DbGetSkeleton(skeletons, "a.ts")[1].file_hash # ComputeFileHash(disk, "a.ts")
    /\ Cardinality(GetImports(import_graph, "a.ts")) = 2
    /\ GetImports(import_graph, "b.ts") # {}
    /\ last.op = "getSkeletonResume"

\* C37: fingerprint and skeleton belong together.  The fingerprint of every
\* memory entry is the fingerprint of bytes from which the entry's skeleton
\* is parsed, whichever path filled the cache.
C37_FingerprintOfSkeleton ==
    \A i \in 1 .. Len(cache) :
        \E c \in Contents :
            /\ Md5(c) = cache[i].hash
            /\ SkeletonOf(cache[i].key, c) = cache[i].value

\* ------------------------------------------------- AclDatabase, its lifecycle
\* Most callers suspended in the server at a time.
MaxHandlers == 2

\* The tables of a database without rows.
EmptyTables == Export({}, {}, {}, {})

\* A caller suspended at an await: the workspace it asks for, where it
\* waits, and the object whose method it awaits (0: none).
Handler(workspacePath, pc, object) ==
    [workspacePath |-> workspacePath, pc |-> pc, object |-> object]

\* Every variable but the tables, the file, the handle and the callers.
lifecycleFrame ==
    << lastContext, anchor, lru, related, disk, now, cache, debounceTimers, scheduled,
       pending, last, lastSet, burst, clean >>

\* AclDatabase.getSkeleton: a read through queryOne.
DbReadSkeleton(p) ==
    IF ~dbOpen THEN NotInitialized("getSkeleton", p)
    ELSE /\ call' = [NoCall EXCEPT !.op = "getSkeleton", !.path = p,
                                   !.outcome = "returned",
                                   !.prev = DbGetSkeleton(skeletons, p),
                                   !.unchanged = TRUE]
         /\ UNCHANGED << skeletons, import_graph, sessions, context_artifacts, dbFile >>
         /\ UNCHANGED << serverVars, lru, related, disk, now, cache, debounceTimers,
                         scheduled, pending, last, lastSet, burst, clean >>

\* AclDatabase.init up to await getSqlJs(): it returns at once when the
\* database is initialized.
DbInitCall ==
    /\ IF initialized
       THEN /\ call' = [NoCall EXCEPT !.op = "init", !.outcome = "returned",
                                      !.unchanged = TRUE]
            /\ UNCHANGED server
       ELSE /\ Len(server.handlers) < MaxHandlers
            /\ call' = [NoCall EXCEPT !.op = "init", !.outcome = "suspended",
                                      !.unchanged = TRUE]
            /\ server' = [server EXCEPT
                            !.handlers = Append(@, Handler(server.workspacePath, "dbInit", 0))]
    /\ UNCHANGED << skeletons, import_graph, sessions, context_artifacts, dbFile,
                    dbOpen, initialized >>
    /\ UNCHANGED lifecycleFrame

\* An init that opens a new database whatever the file holds.
DbInitFresh ==
    /\ server.handlers # << >>
    /\ Head(server.handlers).pc = "dbInit"
    /\ skeletons' = {}
    /\ import_graph' = {}
    /\ sessions' = {}
    /\ context_artifacts' = {}
    /\ dbFile' = EmptyTables
    /\ dbOpen' = TRUE
    /\ initialized' = TRUE
    /\ server' = [server EXCEPT !.handlers = Tail(@)]
    /\ call' = [NoCall EXCEPT !.op = "initResume", !.outcome = "returned",
                              !.unchanged = (dbFile = EmptyTables)]
    /\ UNCHANGED lifecycleFrame

\* AclDatabase.init after await getSqlJs(): the database is loaded from the
\* file (a file that does not exist is one without rows), initSchema creates
\* what is missing and saves, and initialized is set.
DbInitResume ==
    /\ server.handlers # << >>
    /\ Head(server.handlers).pc = "dbInit"
    /\ skeletons' = dbFile.skeletons
    /\ import_graph' = dbFile.import_graph
    /\ sessions' = dbFile.sessions
    /\ context_artifacts' = dbFile.context_artifacts
    /\ dbFile' = Export(skeletons', import_graph', sessions', context_artifacts')
    /\ dbOpen' = TRUE
    /\ initialized' = TRUE
    /\ server' = [server EXCEPT !.handlers = Tail(@)]
    /\ call' = [NoCall EXCEPT !.op = "initResume", !.outcome = "returned",
                              !.unchanged = (dbFile' = dbFile)]
    /\ UNCHANGED lifecycleFrame

\* AclDatabase.close: an open database is saved and released.
DbClose ==
    /\ IF dbOpen
       THEN /\ dbFile' = Tables
            /\ skeletons' = {}
            /\ import_graph' = {}
            /\ sessions' = {}
            /\ context_artifacts' = {}
       ELSE UNCHANGED << skeletons, import_graph, sessions, context_artifacts, dbFile >>
    /\ dbOpen' = FALSE
    /\ initialized' = FALSE
    /\ call' = [NoCall EXCEPT !.op = "close", !.outcome = "returned"]
    /\ UNCHANGED server
    /\ UNCHANGED lifecycleFrame

\* A database constructed on a file an earlier run has left, with the
\* record and edges of b.ts; the Anchor has the file open.
InitLifecycle ==
    LET skeleton == ParseFile(InitDisk, "b.ts")[1]
        db       == PersistSkeleton({}, {}, InitDisk, "b.ts", skeleton, 0)
    IN  /\ disk = InitDisk
        /\ now = 0
        /\ cache = << >>
        /\ debounceTimers = [f \in Files |-> 0]
        /\ scheduled = {}
        /\ skeletons = {}
        /\ import_graph = {}
        /\ sessions = {}
        /\ context_artifacts = {}
        /\ dbFile = Export(db.skeletons, db.import_graph, {}, {})
        /\ call = NoCall
        /\ lastContext = Null
        /\ anchor = dbFile
        /\ dbOpen = FALSE
        /\ initialized = FALSE
        /\ server = NoServer
        /\ pending = << >>
        /\ last = NoLast
        /\ lastSet = [f \in Files |-> Null]
        /\ burst = [f \in Files |-> NoBurst]
        /\ clean = [f \in Files |-> Null]
        /\ related = NoRelated
        /\ lru = NoLru

\* The operations of an AclDatabase in any order, and the Anchor writing
\* the file through its own database.
NextLifecycle ==
    \/ DbInitCall
    \/ DbInitResume
    \/ DbClose
    \/ \E p \in Rewritten : DbReadSkeleton(p)
    \/ \E p \in Rewritten, c \in StoreContents : DbUpsertSkeleton(p, c, TRUE)
    \/ \E p \in StorePaths : DbDeleteSkeleton(p, TRUE)
    \/ \E p \in Rewritten : DbAddImportEdge(p, "b.ts", TRUE)
    \/ \E id \in SessionIds, state \in SessionStates : AnchorSaveSession(id, state)

SpecLifecycle == InitLifecycle /\ [][NextLifecycle]_vars

\* C40: operations outside the open interval.  A read or write called while
\* the database is not open (before init has opened it, after close) throws
\* 'Database not initialized' and leaves the tables and the file as they
\* are; init on an initialized database returns and changes nothing; an init
\* that completes after a close leaves the database holding what the file
\* holds.
C40_Lifecycle ==
    [][ /\ (~dbOpen /\ call'.op \notin {"init", "initResume", "close"} /\ call' # call)
            => /\ call'.outcome = "threw"
               /\ call'.error = "Database not initialized. Call init() first."
               /\ Tables' = Tables
               /\ dbFile' = dbFile
               /\ ~dbOpen'
        /\ (initialized /\ DbInitCall)
            => /\ UNCHANGED << skeletons, import_graph, sessions, context_artifacts,
                               dbFile, dbOpen, initialized, server >>
               /\ call'.outcome = "returned"
        /\ (call'.op = "initResume" /\ DbInitResume)
            => /\ Tables' = dbFile
               /\ dbFile' = dbFile
               /\ dbOpen' /\ initialized'
      ]_vars

\* An init has completed and loaded from the file a record of a.ts, written
\* through this database before, and a session the Anchor wrote.
C40_Witness ==
    /\ call.op = "initResume"
    /\ dbOpen /\ initialized
    /\ DbGetSkeleton(skeletons, "a.ts") # Null
    /\ sessions # {}
    /\ Tables = dbFile

\* ------------------------------------------------ AclServer, its workspaces
\* The workspaces tool calls name by their path arguments.
Workspaces == {"/w", "/w2"}

\* Most AclDatabase objects the server creates in a run.
MaxStores == 6

\* The objects of the server are numbered in the order of their creation:
\* server.stores are the AclDatabase objects (the Anchor's own included),
\* server.watchers the Shadows with their watchers.
Store(workspacePath, open) == [workspacePath |-> workspacePath, open |-> open]

Watcher(config, cartographer, running) ==
    [config |-> config, cartographer |-> cartographer, running |-> running]

\* AclServer after main has constructed and started it on "/w".
StartedServer ==
    [NoServer EXCEPT
        !.initialized = TRUE, !.config = Some("/w"),
        !.database = Some(1), !.anchor = Some(2),
        !.cartographer = Some([config |-> "/w", database |-> 1]),
        !.shadow = Some(1),
        !.stores = << Store("/w", TRUE), Store("/w", TRUE) >>,
        !.watchers = << Watcher("/w", [config |-> "/w", database |-> 1], TRUE) >>]

InitServer ==
    /\ disk = InitDisk
    /\ now = 0
    /\ cache = << >>
    /\ debounceTimers = [f \in Files |-> 0]
    /\ scheduled = {}
    /\ skeletons = {}
    /\ import_graph = {}
    /\ sessions = {}
    /\ context_artifacts = {}
    /\ dbFile = Export(skeletons, import_graph, {}, {})
    /\ call = NoCall
    /\ lastContext = Null
    /\ anchor = dbFile
    /\ dbOpen = TRUE
    /\ initialized = TRUE
    /\ server = StartedServer
    /\ pending = << >>
    /\ last = NoLast
    /\ lastSet = [f \in Files |-> Null]
    /\ burst = [f \in Files |-> NoBurst]
    /\ clean = [f \in Files |-> Null]
    /\ related = NoRelated
    /\ lru = NoLru

\* Every variable but the server and Shadow.lastContext.
serverFrame ==
    << anchor, dbOpen, initialized, lru, related, disk, now, cache, debounceTimers,
       scheduled, dbVars, pending, lastSet, burst, clean >>

\* The sequence without its element number i.
Without(seq, i) == SubSeq(seq, 1, i - 1) \o SubSeq(seq, i + 1, Len(seq))

\* What the switch of the CallTool handler reaches through the fields of
\* the server when it dispatches the call of a handler for workspacePath.
Dispatched(srv, workspacePath) ==
    [NoLast EXCEPT
        !.op = "callTool", !.path = workspacePath,
        !.result = Some([workspacePath |-> srv.workspacePath,
                         config        |-> srv.config[1],
                         database      |-> srv.stores[srv.database[1]],
                         anchor        |-> srv.stores[srv.anchor[1]],
                         cartographer  |-> srv.cartographer[1],
                         shadow        |-> srv.watchers[srv.shadow[1]]])]

\* The CallTool handler from the request to its first await: the workspace
\* is detected from the path argument, and initWithWorkspace is entered when
\* it differs from the server's or nothing is initialized; initWithWorkspace
\* awaits reset's shadow.stop() when the workspace changes, else the import.
CallTool(detectedWorkspace) ==
    /\ ~server.exited
    /\ Len(server.handlers) < MaxHandlers
    /\ IF detectedWorkspace = server.workspacePath /\ server.initialized
       THEN /\ last' = Dispatched(server, detectedWorkspace)
            /\ UNCHANGED server
       ELSE /\ Len(server.stores) + 2 <= MaxStores
            /\ last' = NoLast
            /\ IF server.initialized
               THEN server' = [server EXCEPT
                                 !.handlers = Append(@, Handler(detectedWorkspace,
                                                                "shadowStop",
                                                                server.shadow[1]))]
               ELSE server' = [server EXCEPT
                                 !.workspacePath = detectedWorkspace,
                                 !.handlers = Append(@, Handler(detectedWorkspace,
                                                                "import", 0))]
    /\ UNCHANGED lastContext
    /\ UNCHANGED serverFrame

\* reset after await shadow.stop(): the watcher is closed, the Anchor and
\* the database the server refers to now are closed, initialized is
\* cleared; initWithWorkspace goes on to its await import('fs').
ResetResume(i) ==
    /\ i \in 1 .. Len(server.handlers)
    /\ server.handlers[i].pc = "shadowStop"
    /\ server' = [server EXCEPT
                    !.watchers[server.handlers[i].object].running = FALSE,
                    !.stores = [k \in 1 .. Len(@) |->
                                  IF k \in {server.anchor[1], server.database[1]}
                                  THEN [@[k] EXCEPT !.open = FALSE] ELSE @[k]],
                    !.initialized = FALSE,
                    !.workspacePath = server.handlers[i].workspacePath,
                    !.handlers[i].pc = "import",
                    !.handlers[i].object = 0]
    /\ lastContext' = Null
    /\ last' = NoLast
    /\ UNCHANGED serverFrame

\* initWithWorkspace from loadConfig to await this.database.init().
ImportResume(i) ==
    /\ i \in 1 .. Len(server.handlers)
    /\ server.handlers[i].pc = "import"
    /\ server' = [server EXCEPT
                    !.config = Some(server.handlers[i].workspacePath),
                    !.stores = Append(@, Store(server.handlers[i].workspacePath, FALSE)),
                    !.database = Some(Len(server.stores) + 1),
                    !.handlers[i].pc = "dbInit",
                    !.handlers[i].object = Len(server.stores) + 1]
    /\ last' = NoLast
    /\ UNCHANGED lastContext
    /\ UNCHANGED serverFrame

\* The database is open; initWithWorkspace constructs the Anchor and awaits
\* its init.
DatabaseInitResume(i) ==
    /\ i \in 1 .. Len(server.handlers)
    /\ server.handlers[i].pc = "dbInit"
    /\ server.handlers[i].object # 0
    /\ server' = [server EXCEPT
                    !.stores = Append([@ EXCEPT ![server.handlers[i].object].open = TRUE],
                                      Store(server.handlers[i].workspacePath, FALSE)),
                    !.anchor = Some(Len(server.stores) + 1),
                    !.handlers[i].pc = "anchorInit",
                    !.handlers[i].object = Len(server.stores) + 1]
    /\ last' = NoLast
    /\ UNCHANGED lastContext
    /\ UNCHANGED serverFrame

\* The Anchor is open; initWithWorkspace constructs the Cartographer and the
\* Shadow from this.config and this.database, starts the watcher and sets
\* initialized, and the handler dispatches its call.
AnchorInitResume(i) ==
    LET h            == server.handlers[i]
        cartographer == [config |-> server.config[1], database |-> server.database[1]]
        srv == [server EXCEPT
                  !.stores[h.object].open = TRUE,
                  !.cartographer = Some(cartographer),
                  !.watchers = Append(@, Watcher(server.config[1], cartographer, TRUE)),
                  !.shadow = Some(Len(server.watchers) + 1),
                  !.initialized = TRUE,
                  !.handlers = Without(@, i)]
    IN  /\ i \in 1 .. Len(server.handlers)
        /\ h.pc = "anchorInit"
        /\ server' = srv
        /\ last' = Dispatched(srv, h.workspacePath)
        /\ UNCHANGED lastContext
        /\ UNCHANGED serverFrame

\* A running watcher reports a change: Shadow.onFileChanged calls
\* onFileChanged of its Cartographer, which sets the debounce timer whose
\* callback deletes from the Cartographer's database.
WatcherEvent(k) ==
    /\ ~server.exited
    /\ k \in 1 .. Len(server.watchers)
    /\ server.watchers[k].running
    /\ server' = [server EXCEPT
                    !.timers = @ \cup {[database |-> server.watchers[k].cartographer.database]}]
    /\ last' = NoLast
    /\ UNCHANGED lastContext
    /\ UNCHANGED serverFrame

\* A debounce timer runs: its callback calls deleteSkeleton, which throws
\* from ensureDb when the database is closed.
ServerTimerFire(tm) ==
    /\ ~server.exited
    /\ tm \in server.timers
    /\ server' = [server EXCEPT
                    !.timers = @ \ {tm},
                    !.thrown = @ \/ ~server.stores[tm.database].open]
    /\ last' = [NoLast EXCEPT !.op = "timerFire", !.cb = "dbClear",
                              !.hit = server.stores[tm.database].open]
    /\ UNCHANGED lastContext
    /\ UNCHANGED serverFrame

\* AclServer.stop, called by the SIGINT handler, up to await shadow.stop().
StopCall ==
    /\ ~server.exited
    /\ server.initialized
    /\ \A i \in 1 .. Len(server.handlers) : server.handlers[i].pc # "serverClose"
    /\ Len(server.handlers) < MaxHandlers
    /\ server' = [server EXCEPT
                    !.handlers = Append(@, Handler(server.workspacePath, "stop",
                                                   server.shadow[1]))]
    /\ last' = NoLast
    /\ UNCHANGED lastContext
    /\ UNCHANGED serverFrame

\* stop after await shadow.stop(): the Anchor and the database are closed,
\* and server.close() is awaited.
StopResume(i) ==
    /\ i \in 1 .. Len(server.handlers)
    /\ server.handlers[i].pc = "stop"
    /\ server' = [server EXCEPT
                    !.watchers[server.handlers[i].object].running = FALSE,
                    !.stores = [k \in 1 .. Len(@) |->
                                  IF k \in {server.anchor[1], server.database[1]}
                                  THEN [@[k] EXCEPT !.open = FALSE] ELSE @[k]],
                    !.handlers[i].pc = "serverClose",
                    !.handlers[i].object = 0]
    /\ lastContext' = Null
    /\ last' = NoLast
    /\ UNCHANGED serverFrame

\* The SIGINT handler after await server.stop(): process.exit(0).
Exit(i) ==
    /\ i \in 1 .. Len(server.handlers)
    /\ server.handlers[i].pc = "serverClose"
    /\ server' = [server EXCEPT !.exited = TRUE, !.handlers = << >>, !.timers = {}]
    /\ last' = [NoLast EXCEPT !.op = "exit"]
    /\ UNCHANGED lastContext
    /\ UNCHANGED serverFrame

NextServer ==
    \/ \E w \in Workspaces : CallTool(w)
    \/ \E i \in 1 .. MaxHandlers : ResetResume(i)
    \/ \E i \in 1 .. MaxHandlers : ImportResume(i)
    \/ \E i \in 1 .. MaxHandlers : DatabaseInitResume(i)
    \/ \E i \in 1 .. MaxHandlers : AnchorInitResume(i)
    \/ \E k \in 1 .. Len(server.watchers) : WatcherEvent(k)
    \/ \E tm \in server.timers : ServerTimerFire(tm)
    \/ StopCall
    \/ \E i \in 1 .. MaxHandlers : StopResume(i)
    \/ \E i \in 1 .. MaxHandlers : Exit(i)

SpecServer == InitServer /\ [][NextServer]_vars

\* C38: no invalidation against a closed store.  No debounce timer set by
\* onFileChanged runs its callback on a database that reset or stop has
\* closed: the callback of every timer that runs completes without error.
C38_NoTimerOnClosedStore == ~server.thrown

\* stop has been called.
Stopping ==
    \/ server.exited
    \/ \E i \in 1 .. Len(server.handlers) : server.handlers[i].pc \in {"stop", "serverClose"}

\* C39: workspace switching under concurrent tool calls.  While the server
\* is not asked to stop, at most one watcher runs; when no handler is in
\* progress every database and watcher but the server's current ones is
\* closed or stopped; and what a handler dispatches to (configuration,
\* database, Anchor, Cartographer, Shadow) belongs to the workspace of its
\* call, which is the server's.
C39_WorkspaceSwitching ==
    ~Stopping =>
    /\ Cardinality({ k \in 1 .. Len(server.watchers) : server.watchers[k].running }) <= 1
    /\ server.handlers = << >> =>
          /\ \A k \in 1 .. Len(server.stores) :
                server.stores[k].open => k \in {server.database[1], server.anchor[1]}
          /\ \A k \in 1 .. Len(server.watchers) :
                server.watchers[k].running => k = server.shadow[1]
    /\ last.op = "callTool" =>
          LET used == last.result[1] IN
          /\ used.workspacePath = last.path
          /\ used.config = last.path
          /\ used.database = Store(last.path, TRUE)
          /\ used.anchor = Store(last.path, TRUE)
          /\ used.cartographer.config = last.path
          /\ used.shadow.config = last.path
          /\ used.shadow.running

====
